---------------------------- MODULE Spec2Model ----------------------------
(***************************************************************************)
(* Hex-grid map generation of wasm-babylon-chunks (src/lib.rs): hex        *)
(* coordinate math, the two A* pathfinders, the road-connectivity          *)
(* validator, the Voronoi region assigner and the growing-tree road        *)
(* network builder.                                                        *)
(*                                                                         *)
(* Cells are axial pairs <<q, r>>.  Strings that cross the wasm boundary   *)
(* are sequences of one-character strings, produced and scanned the way    *)
(* the Rust code formats and scans them.  Where the Rust code iterates a   *)
(* std HashSet, whose order is unspecified, the model picks                *)
(* nondeterministically among the orders the set can have.                 *)
(***************************************************************************)
EXTENDS Integers, Sequences, FiniteSets, Bags, TLC

VARIABLES
    pc,          \* position of the driver in the specification being run
    terrainIn,   \* input: terrain cells (set of <<q, r>>)
    startIn,     \* input: start cell
    goalIn,      \* input: goal cell
    ap,          \* hex_astar_path: locals of the running call
    ha,          \* hex_astar: locals of the running call
    bprRet,      \* build_path_between_roads: returned string
    roadsIn,     \* validate_road_connectivity: input list of cells
    validRet,    \* validate_road_connectivity: returned boolean
    seedsIn,     \* generate_road_network_growing_tree: input list of seeds
    validIn,     \* input: valid terrain cells
    occupiedIn,  \* input: occupied cells
    targetIn,    \* input: target_count
    rd,          \* generate_road_network_growing_tree: locals of the running call
    roadRet,     \* returned string of the call that returned last
    roadPrev,    \* returned string of the call before it on the same inputs
    vorIn,       \* generate_voronoi_regions: the six arguments
    vr,          \* generate_voronoi_regions: locals of the running call
    vorRet,      \* records of the list returned by the call that returned last
    vorPrev,     \* seeds and records of the call before it on the same inputs
    distIn,      \* hex_distance, cube_distance: three axial coordinates a, b, c
    distRet,     \* the distances returned for them
    hexIn,       \* cube_ring, generate_hex_grid: centre and radius or max_layer
    ringRet,     \* cube_ring: the Vec returned and the ends of its walk
    gridRet,     \* generate_hex_grid: the Vec returned, the triples discarded
    WFC_STATE,   \* the WfcState behind the lock: grid and pre_constraints
    lastOp,      \* the grid-state function that returned last: arguments, result
    layout,      \* history: the grid the last generate_layout left, what ran since
    mutex,       \* the Mutex around WFC_STATE: "free" or the caller holding it
    callers,     \* interleaved callers: each one's call, position and locals
    committed,   \* history: WFC_STATE when the lock was last released
    idxIn,       \* the seed index expression: seed_counter, i and hex_count
    idxRet       \* the index it gave

pathVars == <<terrainIn, startIn, goalIn, ap, ha, bprRet>>
validVars == <<roadsIn, validRet>>
roadInputs == <<seedsIn, validIn, occupiedIn, targetIn>>
roadVars == <<roadInputs, rd, roadRet, roadPrev>>
vorVars == <<vorIn, vr, vorRet, vorPrev>>
distVars == <<distIn, distRet>>
\* the variables of the distance, ring and grid-state functions
hexVars == <<hexIn, ringRet, gridRet>>
wfcVars == <<WFC_STATE, lastOp, layout>>
lockVars == <<mutex, callers, committed>>
idxVars == <<idxIn, idxRet>>
libVars == <<distVars, hexVars, wfcVars, lockVars, idxVars>>
\* the variables of the path, road and region functions
searchVars == <<pathVars, validVars, roadVars, vorVars>>
vars == <<pc, pathVars, validVars, roadVars, vorVars, libVars>>

(***************************************************************************)
(* Bounds of the model.                                                    *)
(***************************************************************************)
\* number of cells of CellList the pathfinder inputs are drawn from
NumCells == 8
\* longest road list handed to validate_road_connectivity
MaxRoads == 4
\* number of cells of RoadCellList the valid terrain is drawn from
NumRoadCells == 6
\* number of cells of RoadCellList the seeds are drawn from
NumSeedCells == 3
\* number of cells of RoadCellList the occupied cells are drawn from
NumOccupiedCells == 1
\* largest target_count
MaxTarget == 3
\* largest max_layer handed to generate_voronoi_regions
MaxLayer == 1
\* number of cells of CenterList the centre is drawn from
NumCenters == 1
\* number of entries of SeedRequests the seed counts are drawn from
NumSeedRequests == 9
\* largest absolute value of a coordinate handed to the distance functions
MaxCoord == 2
\* largest radius handed to cube_ring, largest max_layer to generate_hex_grid
MaxRing == 3
\* number of cells of GridCellList the grid-state functions are called on
NumGridCells == 2
\* number of entries of TileCodeList set_pre_constraint is called with
NumTileCodes == 4

\* i32 range of the parsed and computed integers
I32Max == 2147483647
I32Min == -I32Max - 1

\* The cells inputs are drawn from: the centre <<10, 0>>, its ring of
\* radius 1 and cells of the ring of radius 2.  The centre is placed so that
\* coordinates are negative, one-digit and two-digit.
CellList ==
    << <<10, 0>>, <<11, 0>>, <<10, 1>>, <<9, 1>>, <<9, 0>>, <<10, -1>>,
       <<11, -1>>, <<12, -1>>, <<12, 0>>, <<11, 1>>, <<10, 2>>, <<9, 2>>,
       <<8, 2>>, <<8, 1>>, <<8, 0>>, <<9, -1>>, <<10, -2>>, <<11, -2>>,
       <<12, -2>> >>

\* The cells the road network inputs are drawn from: the same cells, ordered
\* so that the second and the third are at distance 2, joined through the
\* first and through the fourth.
RoadCellList ==
    << <<10, 0>>, <<11, 0>>, <<9, 1>>, <<10, 1>>, <<9, 0>>, <<10, -1>>,
       <<11, -1>>, <<12, -1>>, <<12, 0>>, <<11, 1>>, <<10, 2>>, <<9, 2>>,
       <<8, 2>>, <<8, 1>>, <<8, 0>>, <<9, -1>>, <<10, -2>>, <<11, -2>>,
       <<12, -2>> >>

Min(a, b) == IF a <= b THEN a ELSE b

Universe == {CellList[i] : i \in 1..Min(NumCells, Len(CellList))}

Abs(x) == IF x < 0 THEN -x ELSE x
Max(a, b) == IF a >= b THEN a ELSE b

(***************************************************************************)
(* Hex coordinate math.                                                    *)
(***************************************************************************)
\* the distance without the s difference
hex_distance_no_s(q1, r1, q2, r2) == (Abs(q1 - q2) + Abs(r1 - r2)) \div 2

hex_distance(q1, r1, q2, r2) ==
    LET s1 == -q1 - r1
        s2 == -q2 - r2
    IN  (Abs(q1 - q2) + Abs(r1 - r2) + Abs(s1 - s2)) \div 2

get_hex_neighbors(q, r) ==
    << <<q + 1, r>>, <<q - 1, r>>, <<q, r + 1>>, <<q, r - 1>>,
       <<q + 1, r - 1>>, <<q - 1, r + 1>> >>

axial_to_cube(q, r) == [q |-> q, r |-> r, s |-> -q - r]

\* the largest of the q and r differences only
cube_distance_no_s(a, b) == Max(Abs(a.q - b.q), Abs(a.r - b.r))

cube_distance(a, b) ==
    Max(Max(Abs(a.q - b.q), Abs(a.r - b.r)), Abs(a.s - b.s))

(***************************************************************************)
(* Text: format!("{}", i32) and the hand-written coordinate scanner.       *)
(***************************************************************************)
DigitChars == <<"0", "1", "2", "3", "4", "5", "6", "7", "8", "9">>

IsDigit(c) == \E k \in 1..10 : DigitChars[k] = c

DigitVal(c) == (CHOOSE k \in 1..10 : DigitChars[k] = c) - 1

RECURSIVE FmtNat(_)
FmtNat(n) ==
    IF n < 10 THEN <<DigitChars[n + 1]>>
    ELSE FmtNat(n \div 10) \o <<DigitChars[(n % 10) + 1]>>

\* format!("{}", n) for an i32
FmtI32(n) == IF n < 0 THEN <<"-">> \o FmtNat(-n) ELSE FmtNat(n)

\* format!(r#"{{"q":{},"r":{}}}"#, q, r)
FmtCoord(c) ==
    <<"{", "\"", "q", "\"", ":">> \o FmtI32(c[1]) \o
    <<",", "\"", "r", "\"", ":">> \o FmtI32(c[2]) \o <<"}">>

RECURSIVE JoinParts(_, _)
\* json_parts.join(",") from part k on
JoinParts(parts, k) ==
    IF k > Len(parts) THEN <<>>
    ELSE IF k = Len(parts) THEN parts[k]
    ELSE parts[k] \o <<",">> \o JoinParts(parts, k + 1)

\* format!("[{}]", json_parts.join(",")) over one part per coordinate
FmtCoordList(cells) ==
    <<"[">> \o JoinParts([k \in 1..Len(cells) |-> FmtCoord(cells[k])], 1) \o <<"]">>

NullStr == <<"n", "u", "l", "l">>
EmptyListStr == <<"[", "]">>

IsSpace(c) == c \in {" ", "\t", "\n", "\r"}

RECURSIVE TrimStart(_)
TrimStart(s) ==
    IF Len(s) > 0 /\ IsSpace(s[1]) THEN TrimStart(Tail(s)) ELSE s

RECURSIVE TrimEnd(_)
TrimEnd(s) ==
    IF Len(s) > 0 /\ IsSpace(s[Len(s)]) THEN TrimEnd(SubSeq(s, 1, Len(s) - 1)) ELSE s

\* str::trim
Trim(s) == TrimEnd(TrimStart(s))

\* Option<i32>
None == [some |-> FALSE, val |-> 0]
Some(v) == [some |-> TRUE, val |-> v]

RECURSIVE DigitsValue(_, _, _)
\* value of the digits s[k..], acc being the value of the digits before k
DigitsValue(s, k, acc) ==
    IF k > Len(s) THEN acc ELSE DigitsValue(s, k + 1, acc * 10 + DigitVal(s[k]))

\* num_str.parse::<i32>() of a text that is a digit or '-' followed by digits
ParseI32(s) ==
    IF s[1] = "-"
    THEN IF Len(s) = 1 THEN None
         ELSE LET v == -DigitsValue(s, 2, 0)
              IN  IF v >= I32Min THEN Some(v) ELSE None
    ELSE LET v == DigitsValue(s, 1, 0)
         IN  IF v <= I32Max THEN Some(v) ELSE None

\* chars[i] with the 0-based index of the Rust code
At(chars, i) == chars[i + 1]

RECURSIVE SkipColonWs(_, _)
\* while i < chars.len() && (chars[i] == ':' || ' ' || '\t') { i += 1 }
SkipColonWs(chars, i) ==
    IF i < Len(chars) /\ At(chars, i) \in {":", " ", "\t"}
    THEN SkipColonWs(chars, i + 1) ELSE i

RECURSIVE SkipDigits(_, _)
\* while i < chars.len() && chars[i].is_ascii_digit() { i += 1 }
SkipDigits(chars, i) ==
    IF i < Len(chars) /\ IsDigit(At(chars, i)) THEN SkipDigits(chars, i + 1) ELSE i

\* the number scanned after a "q" or "r" key whose closing quote ends before
\* index i: [i |-> index after the scan, v |-> the parsed value or None]
ScanNumber(chars, i) ==
    LET j == SkipColonWs(chars, i)
    IN  IF j < Len(chars) /\ (IsDigit(At(chars, j)) \/ At(chars, j) = "-")
        THEN LET e == SkipDigits(chars, j + 1)
             IN  [i |-> e, v |-> ParseI32(SubSeq(chars, j + 1, e))]
        ELSE [i |-> j, v |-> None]

IsKeyAt(chars, i, key) ==
    /\ i + 3 < Len(chars)
    /\ At(chars, i) = "\""
    /\ At(chars, i + 1) = key
    /\ At(chars, i + 2) = "\""

RECURSIVE ScanObject(_, _, _, _)
\* the inner loop: from index i to the closing brace of one object
ScanObject(chars, i, qv, rv) ==
    IF ~(i < Len(chars) /\ At(chars, i) # "}") THEN [i |-> i, q |-> qv, r |-> rv]
    ELSE IF IsKeyAt(chars, i, "q")
         THEN LET n == ScanNumber(chars, i + 3)
              IN  ScanObject(chars, n.i, IF n.v.some THEN n.v ELSE qv, rv)
    ELSE IF IsKeyAt(chars, i, "r")
         THEN LET n == ScanNumber(chars, i + 3)
              IN  ScanObject(chars, n.i, qv, IF n.v.some THEN n.v ELSE rv)
    ELSE ScanObject(chars, i + 1, qv, rv)

RECURSIVE ScanCoords(_, _, _)
\* the outer loop: every object that holds both a q and an r, in order
ScanCoords(chars, i, acc) ==
    IF ~(i < Len(chars)) THEN acc
    ELSE IF At(chars, i) = "{"
         THEN LET o == ScanObject(chars, i + 1, None, None)
              IN  ScanCoords(chars, o.i + 1,
                             IF o.q.some /\ o.r.some
                             THEN Append(acc, <<o.q.val, o.r.val>>) ELSE acc)
    ELSE ScanCoords(chars, i + 1, acc)

SeqToSet(s) == {s[k] : k \in 1..Len(s)}

parse_valid_terrain_json(json) ==
    LET trimmed == Trim(json)
    IN  IF trimmed = <<>> \/ trimmed = EmptyListStr THEN {}
        ELSE SeqToSet(ScanCoords(trimmed, 0, <<>>))

parse_path_json(json) ==
    IF json = NullStr \/ json = <<>> THEN <<>>
    ELSE LET trimmed == Trim(json)
         IN  IF trimmed = EmptyListStr \/ Len(trimmed) < 3 THEN <<>>
             ELSE ScanCoords(trimmed, 0, <<>>)

\* Vec<(i32, i32)>::sort: ascending by q, then by r
CellLess(a, b) == a[1] < b[1] \/ (a[1] = b[1] /\ a[2] < b[2])

RECURSIVE SortCells(_)
SortCells(S) ==
    IF S = {} THEN <<>>
    ELSE LET m == CHOOSE x \in S : \A y \in S : x = y \/ CellLess(x, y)
         IN  <<m>> \o SortCells(S \ {m})

(***************************************************************************)
(* AStarNode and std::collections::BinaryHeap<AStarNode>.  The heap is a   *)
(* max-heap over AStarNode's Ord, which reverses f and then h, so the      *)
(* greatest node is the one with the lowest f, ties by the lowest h.       *)
(* Nodes that compare equal are popped in the order the heap's sift        *)
(* operations leave them in, so the vector and the sifts are modelled.     *)
(***************************************************************************)
AStarNode(q, r, g, h, parent_q, parent_r) ==
    [q |-> q, r |-> r, g |-> g, h |-> h, f |-> g + h,
     parent_q |-> parent_q, parent_r |-> parent_r]

\* mutant of NodeGreater: the order not reversed, the highest f first
NodeGreaterUnreversed(self, other) ==
    self.f > other.f \/ (self.f = other.f /\ self.h > other.h)

\* self.cmp(other) == Ordering::Greater
NodeGreater(self, other) ==
    other.f > self.f \/ (other.f = self.f /\ other.h > self.h)

\* self <= other
NodeLe(self, other) == ~NodeGreater(self, other)

RECURSIVE SiftUp(_, _, _, _)
\* BinaryHeap::sift_up with the hole at the 0-based index pos holding elem
SiftUp(data, elem, start, pos) ==
    IF pos > start
    THEN LET parent == (pos - 1) \div 2
         IN  IF NodeLe(elem, At(data, parent))
             THEN [data EXCEPT ![pos + 1] = elem]
             ELSE SiftUp([data EXCEPT ![pos + 1] = At(data, parent)], elem, start, parent)
    ELSE [data EXCEPT ![pos + 1] = elem]

\* BinaryHeap::push
HeapPush(data, item) == SiftUp(Append(data, item), item, 0, Len(data))

RECURSIVE SiftDownToBottom(_, _, _)
\* BinaryHeap::sift_down_to_bottom(0) with the hole at pos holding elem
SiftDownToBottom(data, elem, pos) ==
    LET end == Len(data)
        child == 2 * pos + 1
    IN  IF end >= 2 /\ child <= end - 2
        THEN LET c == IF NodeLe(At(data, child), At(data, child + 1))
                      THEN child + 1 ELSE child
             IN  SiftDownToBottom([data EXCEPT ![pos + 1] = At(data, c)], elem, c)
        ELSE IF child = end - 1
        THEN SiftUp([data EXCEPT ![pos + 1] = At(data, child)], elem, 0, child)
        ELSE SiftUp(data, elem, 0, pos)

\* BinaryHeap::pop on a non-empty heap: [item |-> the greatest node, data |-> the rest]
HeapPop(data) ==
    LET last == data[Len(data)]
        rest == SubSeq(data, 1, Len(data) - 1)
    IN  IF rest = <<>> THEN [item |-> last, data |-> rest]
        ELSE [item |-> rest[1], data |-> SiftDownToBottom(rest, last, 0)]

\* HashMap::insert
MapInsert(m, k, v) == [x \in DOMAIN m \cup {k} |-> IF x = k THEN v ELSE m[x]]

\* g_scores.get(&key).copied().unwrap_or(i32::MAX)
GetOrMax(m, k) == IF k \in DOMAIN m THEN m[k] ELSE I32Max

EmptyMap == [x \in {} |-> 0]

(***************************************************************************)
(* hex_astar_path: the locals of one call.  status is "run" while the loop *)
(* runs and "ret" once the call has returned ret.                          *)
(***************************************************************************)
\* mutant of hex_astar_path_enter: start = goal tested before the membership
hex_astar_path_enter_equal_first(start, goal, roads) ==
    IF start = goal
    THEN [status |-> "ret", ret |-> 0, open |-> <<>>, closed |-> {},
          g_scores |-> EmptyMap, pops |-> 0]
    ELSE IF start \notin roads \/ goal \notin roads
    THEN [status |-> "ret", ret |-> -1, open |-> <<>>, closed |-> {},
          g_scores |-> EmptyMap, pops |-> 0]
    ELSE LET h_start == hex_distance(start[1], start[2], goal[1], goal[2])
         IN  [status |-> "run", ret |-> 0,
              open |-> <<AStarNode(start[1], start[2], 0, h_start, start[1], start[2])>>,
              closed |-> {},
              g_scores |-> MapInsert(EmptyMap, start, 0), pops |-> 0]

\* the call up to the loop: the two early returns, then the start node pushed
hex_astar_path_enter(start, goal, roads) ==
    IF start \notin roads \/ goal \notin roads
    THEN [status |-> "ret", ret |-> -1, open |-> <<>>, closed |-> {},
          g_scores |-> EmptyMap, pops |-> 0]
    ELSE IF start = goal
    THEN [status |-> "ret", ret |-> 0, open |-> <<>>, closed |-> {},
          g_scores |-> EmptyMap, pops |-> 0]
    ELSE LET h_start == hex_distance(start[1], start[2], goal[1], goal[2])
         IN  [status |-> "run", ret |-> 0,
              open |-> HeapPush(<<>>, AStarNode(start[1], start[2], 0, h_start,
                                                start[1], start[2])),
              closed |-> {},
              g_scores |-> MapInsert(EmptyMap, start, 0), pops |-> 0]

RECURSIVE hex_astar_path_neighbors_equal(_, _, _, _, _, _)
\* mutant of hex_astar_path_neighbors: a neighbour is pushed again when the
\* new g-score equals the recorded one
hex_astar_path_neighbors_equal(st, current, neighbors, k, goal, roads) ==
    IF k > Len(neighbors) THEN st
    ELSE LET neighbor_key == neighbors[k]
             tentative_g == current.g + 1
             current_g == GetOrMax(st.g_scores, neighbor_key)
         IN  IF neighbor_key \notin roads \/ neighbor_key \in st.closed
                \/ ~(tentative_g <= current_g)
             THEN hex_astar_path_neighbors_equal(st, current, neighbors, k + 1, goal, roads)
             ELSE LET h == hex_distance(neighbor_key[1], neighbor_key[2], goal[1], goal[2])
                      pushed == [st EXCEPT
                          !.g_scores = MapInsert(st.g_scores, neighbor_key, tentative_g),
                          !.open = HeapPush(st.open,
                                     AStarNode(neighbor_key[1], neighbor_key[2],
                                               tentative_g, h, current.q, current.r))]
                  IN  hex_astar_path_neighbors_equal(pushed, current, neighbors, k + 1,
                                                     goal, roads)

RECURSIVE hex_astar_path_neighbors(_, _, _, _, _, _)
\* for (nq, nr) in neighbors, from the k-th neighbour on
hex_astar_path_neighbors(st, current, neighbors, k, goal, roads) ==
    IF k > Len(neighbors) THEN st
    ELSE LET neighbor_key == neighbors[k]
             tentative_g == current.g + 1
             current_g == GetOrMax(st.g_scores, neighbor_key)
         IN  IF neighbor_key \notin roads \/ neighbor_key \in st.closed
                \/ ~(tentative_g < current_g)
             THEN hex_astar_path_neighbors(st, current, neighbors, k + 1, goal, roads)
             ELSE LET h == hex_distance(neighbor_key[1], neighbor_key[2], goal[1], goal[2])
                      pushed == [st EXCEPT
                          !.g_scores = MapInsert(st.g_scores, neighbor_key, tentative_g),
                          !.open = HeapPush(st.open,
                                     AStarNode(neighbor_key[1], neighbor_key[2],
                                               tentative_g, h, current.q, current.r))]
                  IN  hex_astar_path_neighbors(pushed, current, neighbors, k + 1, goal, roads)

\* one iteration of `while let Some(current) = open_set.pop()`, or the return
\* after the loop when the heap is empty
hex_astar_path_step(st, goal, roads) ==
    IF st.open = <<>> THEN [st EXCEPT !.status = "ret", !.ret = -1]
    ELSE LET p == HeapPop(st.open)
             current == p.item
             current_key == <<current.q, current.r>>
             popped == [st EXCEPT !.open = p.data, !.pops = st.pops + 1]
         IN  IF current_key \in st.closed THEN popped
             ELSE LET closed1 == [popped EXCEPT !.closed = st.closed \cup {current_key}]
                  IN  IF current_key = goal
                      THEN [closed1 EXCEPT !.status = "ret", !.ret = current.g]
                      ELSE hex_astar_path_neighbors(closed1, current,
                               get_hex_neighbors(current.q, current.r), 1, goal, roads)

RECURSIVE hex_astar_path_loop(_, _, _)
hex_astar_path_loop(st, goal, roads) ==
    IF st.status = "ret" THEN st
    ELSE hex_astar_path_loop(hex_astar_path_step(st, goal, roads), goal, roads)

hex_astar_path(start, goal, roads) ==
    hex_astar_path_loop(hex_astar_path_enter(start, goal, roads), goal, roads).ret

(***************************************************************************)
(* hex_astar: the locals of one call.                                      *)
(***************************************************************************)
\* the closure `heuristic` of hex_astar
heuristic(q, r, goal) ==
    cube_distance(axial_to_cube(q, r), axial_to_cube(goal[1], goal[2]))

\* the call up to the loop: the terrain parsed, the two early returns, then
\* the start node pushed
hex_astar_enter(start, goal, valid_terrain_json) ==
    LET valid_terrain == parse_valid_terrain_json(valid_terrain_json)
        idle == [status |-> "ret", ret |-> NullStr, valid_terrain |-> valid_terrain,
                 open |-> <<>>, closed |-> {}, g_scores |-> EmptyMap,
                 parents |-> EmptyMap, pops |-> 0, defended |-> FALSE]
    IN  IF start \notin valid_terrain \/ goal \notin valid_terrain THEN idle
        ELSE IF start = goal
        THEN [idle EXCEPT !.ret = <<"[">> \o FmtCoord(start) \o <<"]">>]
        ELSE LET h_start == heuristic(start[1], start[2], goal)
             IN  [idle EXCEPT
                    !.status = "run",
                    !.open = HeapPush(<<>>, AStarNode(start[1], start[2], 0, h_start,
                                                      start[1], start[2])),
                    !.g_scores = MapInsert(EmptyMap, start, 0)]

RECURSIVE ReconstructPath(_, _, _, _, _)
\* the `loop` that follows the parent pointers from node_key, path being the
\* cells pushed so far; fuel bounds the walk by the number of recorded
\* parents, a longer walk being one that never ends.
\* [path |-> the vector, defended |-> the no-parent branch pushed the start,
\*  ended |-> the loop ended]
ReconstructPath(parents, node_key, start, path, fuel) ==
    LET path1 == Append(path, node_key)
    IN  IF node_key \in DOMAIN parents
        THEN LET parent_key == parents[node_key]
             IN  IF parent_key = start
                 THEN [path |-> Append(path1, start), defended |-> FALSE, ended |-> TRUE]
                 ELSE IF fuel = 0
                 THEN [path |-> path1, defended |-> FALSE, ended |-> FALSE]
                 ELSE ReconstructPath(parents, parent_key, start, path1, fuel - 1)
        ELSE IF node_key # start
             THEN [path |-> Append(path1, start), defended |-> TRUE, ended |-> TRUE]
             ELSE [path |-> path1, defended |-> FALSE, ended |-> TRUE]

\* mutant of Reverse: the path left in goal-to-start order
ReverseSkipped(s) == s

\* Vec::reverse
Reverse(s) == [k \in 1..Len(s) |-> s[Len(s) + 1 - k]]

RECURSIVE hex_astar_neighbors_rootless(_, _, _, _, _)
\* mutant of hex_astar_neighbors: no parent recorded for a neighbour of the
\* start
hex_astar_neighbors_rootless(st, current, neighbors, k, goal) ==
    IF k > Len(neighbors) THEN st
    ELSE LET neighbor_key == neighbors[k]
             tentative_g == current.g + 1
             current_g == GetOrMax(st.g_scores, neighbor_key)
         IN  IF neighbor_key \notin st.valid_terrain \/ neighbor_key \in st.closed
                \/ ~(tentative_g < current_g)
             THEN hex_astar_neighbors_rootless(st, current, neighbors, k + 1, goal)
             ELSE LET h == heuristic(neighbor_key[1], neighbor_key[2], goal)
                      pushed == [st EXCEPT
                          !.g_scores = MapInsert(st.g_scores, neighbor_key, tentative_g),
                          !.parents = IF current.g = 0 THEN st.parents
                                      ELSE MapInsert(st.parents, neighbor_key,
                                                     <<current.q, current.r>>),
                          !.open = HeapPush(st.open,
                                     AStarNode(neighbor_key[1], neighbor_key[2],
                                               tentative_g, h, current.q, current.r))]
                  IN  hex_astar_neighbors_rootless(pushed, current, neighbors, k + 1, goal)

RECURSIVE hex_astar_neighbors(_, _, _, _, _)
\* for (nq, nr) in neighbors, from the k-th neighbour on
hex_astar_neighbors(st, current, neighbors, k, goal) ==
    IF k > Len(neighbors) THEN st
    ELSE LET neighbor_key == neighbors[k]
             tentative_g == current.g + 1
             current_g == GetOrMax(st.g_scores, neighbor_key)
         IN  IF neighbor_key \notin st.valid_terrain \/ neighbor_key \in st.closed
                \/ ~(tentative_g < current_g)
             THEN hex_astar_neighbors(st, current, neighbors, k + 1, goal)
             ELSE LET h == heuristic(neighbor_key[1], neighbor_key[2], goal)
                      pushed == [st EXCEPT
                          !.g_scores = MapInsert(st.g_scores, neighbor_key, tentative_g),
                          !.parents = MapInsert(st.parents, neighbor_key,
                                                <<current.q, current.r>>),
                          !.open = HeapPush(st.open,
                                     AStarNode(neighbor_key[1], neighbor_key[2],
                                               tentative_g, h, current.q, current.r))]
                  IN  hex_astar_neighbors(pushed, current, neighbors, k + 1, goal)

\* one iteration of `while let Some(current) = open_set.pop()`, or the return
\* after the loop when the heap is empty
hex_astar_step(st, start, goal) ==
    IF st.open = <<>> THEN [st EXCEPT !.status = "ret", !.ret = NullStr]
    ELSE LET p == HeapPop(st.open)
             current == p.item
             current_key == <<current.q, current.r>>
             popped == [st EXCEPT !.open = p.data, !.pops = st.pops + 1]
         IN  IF current_key \in st.closed THEN popped
             ELSE LET closed1 == [popped EXCEPT !.closed = st.closed \cup {current_key}]
                  IN  IF current_key = goal
                      THEN LET rec == ReconstructPath(st.parents, goal, start, <<>>,
                                                      Cardinality(DOMAIN st.parents))
                           IN  IF rec.ended
                               THEN [closed1 EXCEPT
                                       !.status = "ret",
                                       !.ret = FmtCoordList(Reverse(rec.path)),
                                       !.defended = rec.defended]
                               ELSE [closed1 EXCEPT !.status = "hang"]
                      ELSE hex_astar_neighbors(closed1, current,
                               get_hex_neighbors(current.q, current.r), 1, goal)

RECURSIVE hex_astar_loop(_, _, _)
hex_astar_loop(st, start, goal) ==
    IF st.status # "run" THEN st
    ELSE hex_astar_loop(hex_astar_step(st, start, goal), start, goal)

hex_astar(start, goal, valid_terrain_json) ==
    hex_astar_loop(hex_astar_enter(start, goal, valid_terrain_json), start, goal).ret

(***************************************************************************)
(* build_path_between_roads and validate_road_connectivity.                *)
(***************************************************************************)
\* mutant of build_path_between_roads: the start cell not skipped
build_path_between_roads_whole(start, end, valid_terrain_json) ==
    LET full_path_json == hex_astar(start, end, valid_terrain_json)
        trimmed == Trim(full_path_json)
        coords == ScanCoords(trimmed, 0, <<>>)
    IN  IF full_path_json = NullStr \/ full_path_json = <<>> THEN NullStr
        ELSE IF trimmed = EmptyListStr \/ Len(trimmed) < 3 THEN NullStr
        ELSE IF Len(coords) < 2 THEN NullStr
        ELSE FmtCoordList(coords)

build_path_between_roads(start, end, valid_terrain_json) ==
    LET full_path_json == hex_astar(start, end, valid_terrain_json)
        trimmed == Trim(full_path_json)
        coords == ScanCoords(trimmed, 0, <<>>)
    IN  IF full_path_json = NullStr \/ full_path_json = <<>> THEN NullStr
        ELSE IF trimmed = EmptyListStr \/ Len(trimmed) < 3 THEN NullStr
        ELSE IF Len(coords) < 2 THEN NullStr
        ELSE FmtCoordList(SubSeq(coords, 2, Len(coords)))

RECURSIVE AllReachableAdjacentOnly(_, _, _, _)
\* mutant of AllReachable: a road counts as reached only when it touches the source
AllReachableAdjacentOnly(roads, k, source, roads_set) ==
    IF k > Len(roads) THEN TRUE
    ELSE IF hex_astar_path(source, roads[k], roads_set) \notin {0, 1} THEN FALSE
    ELSE AllReachableAdjacentOnly(roads, k + 1, source, roads_set)

RECURSIVE AllReachable(_, _, _, _)
\* for road in roads.iter().skip(1), from the k-th road on
AllReachable(roads, k, source, roads_set) ==
    IF k > Len(roads) THEN TRUE
    ELSE IF hex_astar_path(source, roads[k], roads_set) = -1 THEN FALSE
    ELSE AllReachable(roads, k + 1, source, roads_set)

validate_road_connectivity(roads_json) ==
    LET trimmed == Trim(roads_json)
    IN  IF trimmed = <<>> \/ trimmed = EmptyListStr THEN TRUE
        ELSE LET roads == ScanCoords(trimmed, 0, <<>>)
             IN  IF roads = <<>> THEN TRUE
                 ELSE IF Len(roads) = 1 THEN TRUE
                 ELSE AllReachable(roads, 2, roads[1], SeqToSet(roads))

(***************************************************************************)
(* SpecPath: one call of hex_astar_path, then of hex_astar, then of        *)
(* build_path_between_roads, on the same start, goal and terrain.  The two *)
(* A* loops run one iteration per step.                                    *)
(***************************************************************************)
(***************************************************************************)
(* find_nearest_in_set and generate_road_network_growing_tree.             *)
(*                                                                         *)
(* seeds, connected and unconnected are HashSets, iterated in an order     *)
(* that is unspecified and differs from one set to the next.  Every        *)
(* `for` over one of them is modelled by the values the loop can end       *)
(* with under some order: the first seed is any seed, the next seed any    *)
(* seed not yet taken, and a strict `<` minimum search ends on any of the  *)
(* minimal elements.                                                       *)
(***************************************************************************)
\* the values find_nearest_in_set can return: {} for None, else the pairs
\* <<nearest, min_distance>> over the connected points at minimal distance
find_nearest_in_set(point, connected_set) ==
    IF connected_set = {} THEN {}
    ELSE LET dist(c) == hex_distance(point[1], point[2], c[1], c[2])
             min_distance == CHOOSE d \in {dist(c) : c \in connected_set} :
                                 \A c \in connected_set : d <= dist(c)
         IN  {<<c, min_distance>> : c \in {x \in connected_set : dist(x) = min_distance}}

\* mutant of road_enter: the occupied cells not taken out of the terrain
road_enter_keep_occupied(seeds_json, valid_terrain_json, occupied_json, target_count) ==
    LET seeds == parse_valid_terrain_json(seeds_json)
        valid_terrain == parse_valid_terrain_json(valid_terrain_json)
    IN  [phase |-> IF seeds # {} THEN "first_seed" ELSE "expand",
         seeds |-> seeds, todo |-> seeds,
         valid_terrain_set |-> valid_terrain,
         json |-> FmtCoordList(SortCells(valid_terrain)),
         connected |-> {}, unconnected |-> valid_terrain,
         target_count |-> target_count]

\* the call up to Phase 1: the inputs parsed, the effective terrain built and
\* encoded for hex_astar, connected empty, unconnected the effective terrain
road_enter(seeds_json, valid_terrain_json, occupied_json, target_count) ==
    LET seeds == parse_valid_terrain_json(seeds_json)
        valid_terrain == parse_valid_terrain_json(valid_terrain_json)
        occupied == parse_valid_terrain_json(occupied_json)
        valid_terrain_set == {hex \in valid_terrain : hex \notin occupied}
    IN  [phase |-> IF seeds # {} THEN "first_seed" ELSE "expand",
         seeds |-> seeds, todo |-> seeds,
         valid_terrain_set |-> valid_terrain_set,
         json |-> FmtCoordList(SortCells(valid_terrain_set)),
         connected |-> {}, unconnected |-> valid_terrain_set,
         target_count |-> target_count]

\* for path_hex in path { connected.insert(path_hex); unconnected.remove(&path_hex); }
road_add_path(st, path) ==
    [st EXCEPT !.connected = st.connected \cup SeqToSet(path),
               !.unconnected = st.unconnected \ SeqToSet(path)]

\* the phase after a seed was taken from todo
SeedPhase(todo) == IF todo = {} THEN "expand" ELSE "next_seed"

\* Phase 1, the seed that seeds.iter().next() yields
road_first_seed(st, seed) ==
    LET taken == [st EXCEPT !.todo = st.todo \ {seed},
                            !.phase = SeedPhase(st.todo \ {seed})]
    IN  IF seed \in st.valid_terrain_set
        THEN [taken EXCEPT !.connected = st.connected \cup {seed},
                           !.unconnected = st.unconnected \ {seed}]
        ELSE taken

\* mutant of road_next_seed: a seed on the terrain joins the network whether
\* or not a path to it was found
road_next_seed_unrouted(st, seed) ==
    LET taken == [st EXCEPT !.todo = st.todo \ {seed},
                            !.phase = SeedPhase(st.todo \ {seed})]
    IN  IF seed \notin st.valid_terrain_set THEN {taken}
        ELSE IF st.connected = {}
        THEN {[taken EXCEPT !.connected = {seed},
                            !.unconnected = st.unconnected \ {seed}]}
        ELSE {LET nearest_road == n[1]
                  path_json == hex_astar(nearest_road, seed, st.json)
              IN  IF path_json # NullStr /\ path_json # <<>>
                  THEN road_add_path(taken, parse_path_json(path_json))
                  ELSE road_add_path(taken, <<seed>>)
              : n \in find_nearest_in_set(seed, st.connected)}

\* mutant of road_next_seed: a seed is left out once the network has
\* target_count cells
road_next_seed_capped(st, seed) ==
    LET taken == [st EXCEPT !.todo = st.todo \ {seed},
                            !.phase = SeedPhase(st.todo \ {seed})]
    IN  IF seed \notin st.valid_terrain_set THEN {taken}
        ELSE IF st.connected = {}
        THEN {[taken EXCEPT !.connected = {seed},
                            !.unconnected = st.unconnected \ {seed}]}
        ELSE IF Cardinality(st.connected) >= st.target_count THEN {taken}
        ELSE {LET nearest_road == n[1]
                  path_json == hex_astar(nearest_road, seed, st.json)
              IN  IF path_json # NullStr /\ path_json # <<>>
                  THEN road_add_path(taken, parse_path_json(path_json))
                  ELSE taken
              : n \in find_nearest_in_set(seed, st.connected)}

\* Phase 1, one iteration of `for seed in seeds.iter().skip(1)`: the states
\* it can end in
road_next_seed(st, seed) ==
    LET taken == [st EXCEPT !.todo = st.todo \ {seed},
                            !.phase = SeedPhase(st.todo \ {seed})]
    IN  IF seed \notin st.valid_terrain_set THEN {taken}
        ELSE IF st.connected = {}
        THEN {[taken EXCEPT !.connected = {seed},
                            !.unconnected = st.unconnected \ {seed}]}
        ELSE {LET nearest_road == n[1]
                  path_json == hex_astar(nearest_road, seed, st.json)
              IN  IF path_json # NullStr /\ path_json # <<>>
                  THEN road_add_path(taken, parse_path_json(path_json))
                  ELSE taken
              : n \in find_nearest_in_set(seed, st.connected)}

\* mutant of road_expand_more: the while stops one cell before target_count
road_expand_more_early(st) ==
    Cardinality(st.connected) + 1 < st.target_count /\ st.unconnected # {}

\* the condition of Phase 2's while
road_expand_more(st) ==
    Cardinality(st.connected) < st.target_count /\ st.unconnected # {}

\* mutant of road_best_pairs: the scan keeps the pair with the largest distance
road_best_pairs_farthest(st) ==
    LET found == UNION {{<<u, n>> : n \in find_nearest_in_set(u, st.connected)} :
                        u \in st.unconnected}
    IN  {<<p[1], p[2][1]>> : p \in {x \in found : \A y \in found : x[2][2] >= y[2][2]}}

\* the pairs <<best_unconnected, best_connected>> the scan of Phase 2 can end
\* with; {} when it ends with None
road_best_pairs(st) ==
    LET found == UNION {{<<u, n>> : n \in find_nearest_in_set(u, st.connected)} :
                        u \in st.unconnected}
    IN  {<<p[1], p[2][1]>> : p \in {x \in found : \A y \in found : x[2][2] <= y[2][2]}}

\* mutant of road_expand: a cell no path leads to stays in the pool
road_expand_retry(st, best) ==
    LET unconnected_point == best[1]
        connected_road == best[2]
        path_json == hex_astar(connected_road, unconnected_point, st.json)
    IN  IF path_json # NullStr /\ path_json # <<>>
        THEN road_add_path(st, parse_path_json(path_json))
        ELSE st

\* Phase 2, one iteration of the while whose scan ended with `best`
road_expand(st, best) ==
    LET unconnected_point == best[1]
        connected_road == best[2]
        path_json == hex_astar(connected_road, unconnected_point, st.json)
    IN  IF path_json # NullStr /\ path_json # <<>>
        THEN road_add_path(st, parse_path_json(path_json))
        ELSE [st EXCEPT !.unconnected = st.unconnected \ {unconnected_point}]

\* the returned text: the connected set, sorted
road_result(st) == FmtCoordList(SortCells(st.connected))

(***************************************************************************)
(* cube_ring, generate_hex_grid and generate_voronoi_regions.              *)
(*                                                                         *)
(* generate_hex_grid collects the rings in a HashSet and returns the set's *)
(* cells in its iteration order, which is unspecified.  The model keeps    *)
(* the cells as a set and `shown`, the part of the order the call has      *)
(* looked at: a map from the indices read so far to distinct cells.  An    *)
(* index read for the first time holds any cell not shown yet.  The list   *)
(* returned is kept as the bag of its records, its order being that of     *)
(* the same HashSet.                                                       *)
(***************************************************************************)
Grass == 0
Building == 1
Road == 2
Forest == 3
Water == 4

CubeCoord(q, r, s) == [q |-> q, r |-> r, s |-> s]

CUBE_DIRECTIONS ==
    << CubeCoord(1, 0, -1), CubeCoord(1, -1, 0), CubeCoord(0, -1, 1),
       CubeCoord(-1, 0, 1), CubeCoord(-1, 1, 0), CubeCoord(0, 1, -1) >>

cube_add(a, b) == CubeCoord(a.q + b.q, a.r + b.r, a.s + b.s)

cube_scale(hex, factor) == CubeCoord(hex.q * factor, hex.r * factor, hex.s * factor)

\* direction moved to the side after the one asked for
cube_neighbor_next(cube, direction) ==
    cube_add(cube, CUBE_DIRECTIONS[((direction + 1) % 6) + 1])

\* direction is the 0-based index of the Rust code
cube_neighbor(cube, direction) == cube_add(cube, CUBE_DIRECTIONS[(direction % 6) + 1])

RECURSIVE cube_ring_walk(_, _, _, _, _)
\* the two nested loops of cube_ring from side i, step j on: the results
\* and the current_hex they end with
cube_ring_walk(results, current_hex, i, j, radius) ==
    IF i >= 6 THEN [results |-> results, current_hex |-> current_hex]
    ELSE IF j >= radius THEN cube_ring_walk(results, current_hex, i + 1, 0, radius)
    ELSE cube_ring_walk(Append(results, current_hex), cube_neighbor(current_hex, i),
                        i, j + 1, radius)

\* the first hex of the ring: radius steps from the center in direction 4
cube_ring_start(center, radius) ==
    cube_add(center, cube_scale(CUBE_DIRECTIONS[5], radius))

\* cube_ring past its radius == 0 test
cube_ring_loops(center, radius) ==
    cube_ring_walk(<<>>, cube_ring_start(center, radius), 0, 0, radius)

cube_ring(center, radius) ==
    IF radius = 0 THEN <<center>>
    ELSE cube_ring_loops(center, radius).results

\* the rings from layer 1 on only
hex_grid_set_no_center(max_layer, center_cube) ==
    UNION {SeqToSet(cube_ring(center_cube, layer)) : layer \in 1..max_layer}

\* grid_set of generate_hex_grid when its loop over the layers has ended
hex_grid_set(max_layer, center_cube) ==
    UNION {SeqToSet(cube_ring(center_cube, layer)) : layer \in 0..max_layer}

\* the Vec generate_hex_grid returns, as the bag of its cells: one push for
\* each triple of grid_set with q + r + s = 0; its order is the HashSet's
hex_grid_vec(max_layer, center_q, center_r) ==
    LET center_cube == CubeCoord(center_q, center_r, -center_q - center_r)
        kept == {x \in hex_grid_set(max_layer, center_cube) : x.q + x.r + x.s = 0}
    IN  [h \in {<<c.q, c.r>> : c \in kept} |->
            Cardinality({x \in kept : <<x.q, x.r>> = h})]

\* the cells of the Vec generate_hex_grid returns
generate_hex_grid(max_layer, center_q, center_r) ==
    BagToSet(hex_grid_vec(max_layer, center_q, center_r))

VoronoiSeed(q, r, tile_type) == [q |-> q, r |-> r, tile_type |-> tile_type]

\* one part of json_parts: {"q":..,"r":..,"tileType":..}
Record(q, r, tileType) == [q |-> q, r |-> r, tileType |-> tileType]

\* no record at all in place of the default entry
DefaultEntryNone == EmptyBag

\* the list returned when there is no grid: [{"q":0,"r":0,"tileType":0}]
DefaultEntry == SetToBag({Record(0, 0, 0)})

\* the locals of generate_voronoi_regions before a call
VrIdle == [phase |-> "idle", hex_grid |-> {}, hex_count |-> 0, shown |-> EmptyMap,
           seeds |-> <<>>, seed_counter |-> 0, kind |-> 1, i |-> 0,
           counts |-> <<0, 0, 0>>]

\* the tile types of the three seed loops, in their order
SeedKinds == <<Forest, Water, Grass>>

RECURSIVE vor_advance(_)
\* the loop position moved to the next iteration there is, or past the loops
vor_advance(st) ==
    IF st.kind > 3 THEN [st EXCEPT !.phase = IF st.seeds = <<>> THEN "force" ELSE "assign"]
    ELSE IF st.i < st.counts[st.kind] THEN st
    ELSE vor_advance([st EXCEPT !.kind = st.kind + 1, !.i = 0])

\* mutant of vor_enter: a negative seed count taken by its size
vor_enter_abs(max_layer, center_q, center_r, forest_seeds, water_seeds, grass_seeds) ==
    LET hex_grid == generate_hex_grid(max_layer, center_q, center_r)
        forest_count == Abs(forest_seeds)
        water_count == Abs(water_seeds)
        grass_count == Abs(grass_seeds)
    IN  IF hex_grid = {}
        THEN [VrIdle EXCEPT !.phase = "ret_default"]
        ELSE vor_advance([VrIdle EXCEPT
                 !.phase = "seeds", !.hex_grid = hex_grid,
                 !.hex_count = Cardinality(hex_grid),
                 !.counts = <<forest_count, water_count, grass_count>>])

\* the call up to the seed loops
vor_enter(max_layer, center_q, center_r, forest_seeds, water_seeds, grass_seeds) ==
    LET hex_grid == generate_hex_grid(max_layer, center_q, center_r)
        forest_count == IF forest_seeds > 0 THEN forest_seeds ELSE 0
        water_count == IF water_seeds > 0 THEN water_seeds ELSE 0
        grass_count == IF grass_seeds > 0 THEN grass_seeds ELSE 0
    IN  IF hex_grid = {}
        THEN [VrIdle EXCEPT !.phase = "ret_default"]
        ELSE vor_advance([VrIdle EXCEPT
                 !.phase = "seeds", !.hex_grid = hex_grid,
                 !.hex_count = Cardinality(hex_grid),
                 !.counts = <<forest_count, water_count, grass_count>>])

\* the cells hex_vec[index] can be, given the part of the order shown so far
hex_vec_at(st, index) ==
    IF index \in DOMAIN st.shown THEN {st.shown[index]}
    ELSE st.hex_grid \ {st.shown[x] : x \in DOMAIN st.shown}

\* usize: the crate is built for WebAssembly (wasm_bindgen), where usize has
\* 32 bits.  A usize is held as its 16-bit limbs, the lowest first, so that
\* no product leaves the range of the integers of the model.
UsizeBits == 32
LimbBase == 65536
UsizeLimbs == UsizeBits \div 16

\* `n as usize` of an i32 n >= 0
as_usize(n) ==
    [k \in 1..UsizeLimbs |->
        IF k = 1 THEN n % LimbBase ELSE IF k = 2 THEN n \div LimbBase ELSE 0]

RECURSIVE MulLimbs(_, _, _, _)
\* a * m from limb k on with `carry` coming in; the carry out of the highest
\* limb is lost
MulLimbs(a, m, k, carry) ==
    IF k > Len(a) THEN <<>>
    ELSE LET t == a[k] * m + carry
         IN  <<t % LimbBase>> \o MulLimbs(a, m, k + 1, t \div LimbBase)

\* a * m on usize, m below 2^15: the product modulo 2^UsizeBits
wrapping_mul(a, m) == MulLimbs(a, m, 1, 0)

RECURSIVE AddLimbs(_, _, _, _)
AddLimbs(a, b, k, carry) ==
    IF k > Len(a) THEN <<>>
    ELSE LET t == a[k] + b[k] + carry
         IN  <<t % LimbBase>> \o AddLimbs(a, b, k + 1, t \div LimbBase)

\* a + b on usize: the sum modulo 2^UsizeBits
wrapping_add(a, b) == AddLimbs(a, b, 1, 0)

RECURSIVE RemLimbs(_, _, _, _)
\* a % n from limb k down, rem being the remainder of the limbs above it
RemLimbs(a, n, k, rem) ==
    IF k = 0 THEN rem
    ELSE RemLimbs(a, n, k - 1, (rem * LimbBase + a[k]) % n)

\* a % n on usize, n below 2^15
usize_rem(a, n) == RemLimbs(a, n, Len(a), 0)

\* ((seed_counter * 7919) + (i * 997)) % hex_count, in usize: a build without
\* overflow checks wraps the products and the sum (one with them panics)
seed_index(seed_counter, i, hex_count) ==
    usize_rem(wrapping_add(wrapping_mul(as_usize(seed_counter), 7919),
                           wrapping_mul(as_usize(i), 997)),
              hex_count)

\* one iteration of a seed loop, hex_vec[index] being cell
vor_seed(st, cell) ==
    LET seed_counter == st.seed_counter + 1
        index == seed_index(seed_counter, st.i, st.hex_count)
        pushed == IF index < st.hex_count
                  THEN Append(st.seeds, VoronoiSeed(cell[1], cell[2], SeedKinds[st.kind]))
                  ELSE st.seeds
    IN  vor_advance([st EXCEPT !.seed_counter = seed_counter,
                               !.shown = MapInsert(st.shown, index, cell),
                               !.seeds = pushed,
                               !.i = st.i + 1])

\* the forced seed when the loops made none, hex_vec.first() being cell
vor_force(st, cell) ==
    [st EXCEPT !.shown = MapInsert(st.shown, 0, cell),
               !.seeds = Append(st.seeds, VoronoiSeed(cell[1], cell[2], Grass)),
               !.phase = "assign"]

\* the last of the seeds at the smallest distance
nearest_seed_last(hex, seeds) ==
    LET dist(k) == hex_distance(hex[1], hex[2], seeds[k].q, seeds[k].r)
        best == CHOOSE k \in 1..Len(seeds) :
                    /\ \A j \in 1..Len(seeds) : dist(k) <= dist(j)
                    /\ \A j \in (k + 1)..Len(seeds) : dist(j) > dist(k)
    IN  seeds[best]

\* seeds.iter().min_by_key(|seed| hex_distance(..)): the first of the seeds
\* at the smallest distance
nearest_seed(hex, seeds) ==
    LET dist(k) == hex_distance(hex[1], hex[2], seeds[k].q, seeds[k].r)
        best == CHOOSE k \in 1..Len(seeds) :
                    /\ \A j \in 1..Len(seeds) : dist(k) <= dist(j)
                    /\ \A j \in 1..(k - 1) : dist(j) > dist(k)
    IN  seeds[best]

\* the records of the assignment loop, one per cell of hex_grid
vor_assign(st) ==
    SetToBag({Record(hex[1], hex[2], nearest_seed(hex, st.seeds).tile_type) :
                 hex \in st.hex_grid})

\* the function from the assignment loop to its return: the seeds_ref test,
\* the loop, and the entry of the first seed when the loop made no part
vor_result(st) ==
    IF st.seeds = <<>> THEN DefaultEntry
    ELSE LET json_parts == vor_assign(st)
             first_seed == st.seeds[1]
         IN  IF json_parts = EmptyBag
             THEN SetToBag({Record(first_seed.q, first_seed.r, first_seed.tile_type)})
             ELSE json_parts

(***************************************************************************)
(* Grid state: WfcState and the exported functions that lock WFC_STATE.    *)
(* A HashMap is a function from its keys; each exported function holds the *)
(* lock from its first statement to its return.                            *)
(***************************************************************************)
WfcState_new == [grid |-> EmptyMap, pre_constraints |-> EmptyMap]

\* clear that empties the pre-constraints as well
WfcState_clear_all(state) == [state EXCEPT !.grid = EmptyMap, !.pre_constraints = EmptyMap]

WfcState_clear(state) == [state EXCEPT !.grid = EmptyMap]

WfcState_set_pre_constraint(state, q, r, tile_type) ==
    [state |-> [state EXCEPT !.pre_constraints = MapInsert(@, <<q, r>>, tile_type)],
     ret |-> TRUE]

WfcState_clear_pre_constraints(state) == [state EXCEPT !.pre_constraints = EmptyMap]

WfcState_get_tile(state, q, r) ==
    IF <<q, r>> \in DOMAIN state.grid THEN Some(state.grid[<<q, r>>]) ELSE None

RECURSIVE InsertAll(_, _, _)
\* grid.insert for every entry of the collected pre_constraints whose key is
\* in todo; the keys of a HashMap are distinct, so the order of the entries
\* does not show in the result
InsertAll(grid, pre_constraints, todo) ==
    IF todo = {} THEN grid
    ELSE LET key == CHOOSE k \in todo : TRUE
         IN  InsertAll(MapInsert(grid, key, pre_constraints[key]), pre_constraints,
                       todo \ {key})

\* the copy loop without the clear before it
generate_layout_keep(state) ==
    [state EXCEPT !.grid = InsertAll(state.grid, state.pre_constraints,
                                     DOMAIN state.pre_constraints)]

generate_layout(state) ==
    LET cleared == WfcState_clear(state)
    IN  [cleared EXCEPT !.grid = InsertAll(cleared.grid, cleared.pre_constraints,
                                           DOMAIN cleared.pre_constraints)]

\* the tile whatever the grid holds: the pre-constraint when there is one
get_tile_at_pre(state, q, r) ==
    IF <<q, r>> \in DOMAIN state.pre_constraints THEN state.pre_constraints[<<q, r>>]
    ELSE IF WfcState_get_tile(state, q, r).some THEN WfcState_get_tile(state, q, r).val
    ELSE -1

\* tile as i32 of the enum value, or -1
get_tile_at(state, q, r) ==
    LET tile == WfcState_get_tile(state, q, r)
    IN  IF tile.some THEN tile.val ELSE -1

\* clear_layout emptying the pre-constraints as well
clear_layout_all(state) == WfcState_clear_all(state)

clear_layout(state) == WfcState_clear(state)

\* the match of set_pre_constraint: the TileType of an i32, if there is one
TileOfCode(tile_type) ==
    CASE tile_type = 0 -> Some(Grass)
      [] tile_type = 1 -> Some(Building)
      [] tile_type = 2 -> Some(Road)
      [] tile_type = 3 -> Some(Forest)
      [] tile_type = 4 -> Some(Water)
      [] OTHER -> None

\* every i32 taken as a tile type
set_pre_constraint_any(state, q, r, tile_type) ==
    WfcState_set_pre_constraint(state, q, r, tile_type)

set_pre_constraint(state, q, r, tile_type) ==
    LET tile == TileOfCode(tile_type)
    IN  IF ~tile.some THEN [state |-> state, ret |-> FALSE]
        ELSE WfcState_set_pre_constraint(state, q, r, tile.val)

clear_pre_constraints(state) == WfcState_clear_pre_constraints(state)

\* "name": in the text of get_stats
FmtKey(name) == <<"\"">> \o name \o <<"\"", ":">>

\* the number of grid values equal to tile
CountTiles(state, tile) == Cardinality({k \in DOMAIN state.grid : state.grid[k] = tile})

get_stats(state) ==
    LET grass == CountTiles(state, Grass)
        building == CountTiles(state, Building)
        road == CountTiles(state, Road)
        forest == CountTiles(state, Forest)
        water == CountTiles(state, Water)
        total == grass + building + road + forest + water
    IN  <<"{">> \o FmtKey(<<"g", "r", "a", "s", "s">>) \o FmtI32(grass)
        \o <<",">> \o FmtKey(<<"b", "u", "i", "l", "d", "i", "n", "g">>) \o FmtI32(building)
        \o <<",">> \o FmtKey(<<"r", "o", "a", "d">>) \o FmtI32(road)
        \o <<",">> \o FmtKey(<<"f", "o", "r", "e", "s", "t">>) \o FmtI32(forest)
        \o <<",">> \o FmtKey(<<"w", "a", "t", "e", "r">>) \o FmtI32(water)
        \o <<",">> \o FmtKey(<<"t", "o", "t", "a", "l">>) \o FmtI32(total)
        \o <<"}">>

ApIdle == [status |-> "idle", ret |-> 0, open |-> <<>>, closed |-> {},
           g_scores |-> EmptyMap, pops |-> 0]

HaIdle == [status |-> "idle", ret |-> <<>>, valid_terrain |-> {}, open |-> <<>>,
           closed |-> {}, g_scores |-> EmptyMap, parents |-> EmptyMap, pops |-> 0,
           defended |-> FALSE]

PathIdle ==
    /\ terrainIn = {} /\ startIn = CellList[1] /\ goalIn = CellList[1]
    /\ ap = ApIdle /\ ha = HaIdle /\ bprRet = <<>>

ValidIdle == roadsIn = <<>> /\ validRet = FALSE

RdIdle == [phase |-> "idle", seeds |-> {}, todo |-> {}, valid_terrain_set |-> {},
           json |-> <<>>, connected |-> {}, unconnected |-> {}, target_count |-> 0]

RoadIdle ==
    /\ seedsIn = <<>> /\ validIn = {} /\ occupiedIn = {} /\ targetIn = 0
    /\ rd = RdIdle /\ roadRet = <<>> /\ roadPrev = <<>>

NoCall == [seeds |-> <<>>, records |-> EmptyBag, called |-> FALSE]

VorIdle ==
    /\ vorIn = [max_layer |-> 0, center_q |-> 0, center_r |-> 0,
                forest_seeds |-> 0, water_seeds |-> 0, grass_seeds |-> 0]
    /\ vr = VrIdle /\ vorRet = EmptyBag /\ vorPrev = NoCall

\* the terrain as the caller encodes it
TerrainJson == FmtCoordList(SortCells(terrainIn))

DistIdle == distIn = <<>> /\ distRet = <<>>

HexIdle == hexIn = <<>> /\ ringRet = <<>> /\ gridRet = <<>>

NoOp == [op |-> "none", q |-> 0, r |-> 0, tile_type |-> 0, ret |-> <<>>,
         replaced |-> FALSE]

NoLayout == [made |-> FALSE, grid |-> EmptyMap, touched |-> FALSE, cleared |-> FALSE,
             again |-> FALSE, afterClear |-> FALSE, dropped |-> FALSE]

WfcIdle == WFC_STATE = WfcState_new /\ lastOp = NoOp /\ layout = NoLayout

LockIdle == mutex = "free" /\ callers = <<>> /\ committed = WfcState_new

IdxIdle == idxIn = <<>> /\ idxRet = <<>>

LibIdle == DistIdle /\ HexIdle /\ WfcIdle /\ LockIdle /\ IdxIdle

SearchIdle == PathIdle /\ ValidIdle /\ RoadIdle /\ VorIdle

InitPath ==
    /\ pc = "ap_call"
    /\ terrainIn \in SUBSET Universe
    /\ startIn \in Universe
    /\ goalIn \in Universe
    /\ ap = ApIdle /\ ha = HaIdle /\ bprRet = <<>>
    /\ ValidIdle
    /\ RoadIdle
    /\ VorIdle
    /\ LibIdle

AstarPathCall ==
    /\ pc = "ap_call"
    /\ ap' = hex_astar_path_enter(startIn, goalIn, terrainIn)
    /\ pc' = IF ap'.status = "ret" THEN "ha_call" ELSE "ap_loop"
    /\ UNCHANGED <<terrainIn, startIn, goalIn, ha, bprRet, validVars, roadVars, vorVars, libVars>>

AstarPathStep ==
    /\ pc = "ap_loop"
    /\ ap' = hex_astar_path_step(ap, goalIn, terrainIn)
    /\ pc' = IF ap'.status = "ret" THEN "ha_call" ELSE "ap_loop"
    /\ UNCHANGED <<terrainIn, startIn, goalIn, ha, bprRet, validVars, roadVars, vorVars, libVars>>

HexAstarCall ==
    /\ pc = "ha_call"
    /\ ha' = hex_astar_enter(startIn, goalIn, TerrainJson)
    /\ pc' = IF ha'.status = "run" THEN "ha_loop" ELSE "bpr_call"
    /\ UNCHANGED <<terrainIn, startIn, goalIn, ap, bprRet, validVars, roadVars, vorVars, libVars>>

HexAstarStep ==
    /\ pc = "ha_loop"
    /\ ha' = hex_astar_step(ha, startIn, goalIn)
    /\ pc' = IF ha'.status = "run" THEN "ha_loop" ELSE "bpr_call"
    /\ UNCHANGED <<terrainIn, startIn, goalIn, ap, bprRet, validVars, roadVars, vorVars, libVars>>

BuildPathCall ==
    /\ pc = "bpr_call"
    /\ ha.status = "ret"
    /\ bprRet' = build_path_between_roads(startIn, goalIn, TerrainJson)
    /\ pc' = "done"
    /\ UNCHANGED <<terrainIn, startIn, goalIn, ap, ha, validVars, roadVars, vorVars, libVars>>

NextPath ==
    \/ AstarPathCall
    \/ AstarPathStep
    \/ HexAstarCall
    \/ HexAstarStep
    \/ BuildPathCall

SpecPath == InitPath /\ [][NextPath]_vars

(***************************************************************************)
(* SpecValidate: one call of validate_road_connectivity on a road list.    *)
(***************************************************************************)
RECURSIVE SeqsUpTo(_, _)
\* the sequences over S of length at most n
SeqsUpTo(S, n) ==
    IF n = 0 THEN {<<>>}
    ELSE LET shorter == SeqsUpTo(S, n - 1)
         IN  shorter \cup {Append(t, x) : t \in shorter, x \in S}

InitValidate ==
    /\ pc = "valid_call"
    /\ roadsIn \in SeqsUpTo(Universe, MaxRoads)
    /\ validRet = FALSE
    /\ PathIdle
    /\ RoadIdle
    /\ VorIdle
    /\ LibIdle

ValidateCall ==
    /\ pc = "valid_call"
    /\ validRet' = validate_road_connectivity(FmtCoordList(roadsIn))
    /\ pc' = "valid_done"
    /\ UNCHANGED <<roadsIn, pathVars, roadVars, vorVars, libVars>>

NextValidate == ValidateCall

SpecValidate == InitValidate /\ [][NextValidate]_vars

(***************************************************************************)
(* Reference notions the claims are stated with.                           *)
(***************************************************************************)
HexOffsets == {<<1, 0>>, <<-1, 0>>, <<0, 1>>, <<0, -1>>, <<1, -1>>, <<-1, 1>>}

HexAdjacent(a, b) == <<b[1] - a[1], b[2] - a[2]>> \in HexOffsets

RECURSIVE BfsLevels(_, _, _, _, _)
\* breadth-first search over T: the number of the level goal is found in, -1
\* when the search ends without it
BfsLevels(T, frontier, seen, goal, d) ==
    IF goal \in frontier THEN d
    ELSE LET next == {c \in T \ seen : \E x \in frontier : HexAdjacent(x, c)}
         IN  IF next = {} THEN -1
             ELSE BfsLevels(T, next, seen \cup next, goal, d + 1)

\* the unit-cost shortest-path length from s to t inside T, for s and t in T
ShortestLen(T, s, t) == BfsLevels(T, {s}, {s}, t, 0)

AstarPathReturned == pc \in {"ha_call", "ha_loop", "bpr_call", "done"}
HexAstarReturned == pc \in {"bpr_call", "done"} /\ ha.status = "ret"

\* the cells of a returned path text, which is the text of exactly those cells
PathOf(json) == ScanCoords(json, 0, <<>>)

IsPathText(json) == json # NullStr /\ FmtCoordList(PathOf(json)) = json

\* C1: for start and goal in the terrain, hex_astar_path returns the
\* breadth-first shortest-path length (0 when start = goal), and -1 exactly
\* when the goal is not reachable from the start.
C1_ShortestLength ==
    (AstarPathReturned /\ startIn \in terrainIn /\ goalIn \in terrainIn)
        => /\ ap.ret = ShortestLen(terrainIn, startIn, goalIn)
           /\ (startIn = goalIn => ap.ret = 0)

\* a search that had to go round: the length found exceeds the hex distance
C1_Witness ==
    /\ pc = "done"
    /\ ap.ret > hex_distance(startIn[1], startIn[2], goalIn[1], goalIn[2])
    /\ ap.ret >= 3

\* another search that found the goal unreachable after expanding cells
C1_WitnessUnreachable ==
    /\ pc = "done" /\ startIn \in terrainIn /\ goalIn \in terrainIn
    /\ ap.ret = -1 /\ Cardinality(ap.closed) >= 2

\* C2: a path returned by hex_astar starts with the start, ends with the
\* goal, holds only terrain cells, steps between hex-adjacent cells, repeats
\* no cell and has hex_astar_path's length plus one cells; hex_astar returns
\* null exactly when hex_astar_path returns -1.
C2_PathShape ==
    HexAstarReturned =>
        /\ (ha.ret = NullStr) <=> (ap.ret = -1)
        /\ ha.ret # NullStr =>
             LET path == PathOf(ha.ret)
             IN  /\ IsPathText(ha.ret)
                 /\ Len(path) = ap.ret + 1
                 /\ path[1] = startIn
                 /\ path[Len(path)] = goalIn
                 /\ \A k \in 1..Len(path) : path[k] \in terrainIn
                 /\ \A k \in 1..(Len(path) - 1) : HexAdjacent(path[k], path[k + 1])
                 /\ \A j, k \in 1..Len(path) : path[j] = path[k] => j = k

\* a returned path of at least four cells
C2_Witness ==
    /\ pc = "done" /\ ha.ret # NullStr
    /\ Len(PathOf(ha.ret)) >= 4

\* C3: with the start or the goal outside the terrain, hex_astar_path returns
\* -1 and hex_astar returns null, neither popping or expanding a node, also
\* when start = goal.
C3_FailFast ==
    (startIn \notin terrainIn \/ goalIn \notin terrainIn) =>
        /\ AstarPathReturned =>
             ap.ret = -1 /\ ap.pops = 0 /\ ap.closed = {} /\ ap.open = <<>>
        /\ pc # "ap_loop"
        /\ pc \in {"bpr_call", "done"} =>
             /\ ha.status = "ret" /\ ha.ret = NullStr
             /\ ha.pops = 0 /\ ha.closed = {} /\ ha.open = <<>>
        /\ pc # "ha_loop"

\* start = goal outside a non-empty terrain, both calls returned
C3_Witness ==
    /\ pc = "done" /\ startIn = goalIn /\ startIn \notin terrainIn
    /\ terrainIn # {}

FirstRoadCells(n) == {RoadCellList[i] : i \in 1..Min(n, Len(RoadCellList))}

InitRoad ==
    /\ pc = "road_call"
    /\ seedsIn \in {SortCells(S) : S \in SUBSET FirstRoadCells(NumSeedCells)}
    /\ validIn \in SUBSET FirstRoadCells(NumRoadCells)
    /\ occupiedIn \in SUBSET FirstRoadCells(NumOccupiedCells)
    /\ targetIn \in 0..MaxTarget
    /\ rd = RdIdle /\ roadRet = <<>> /\ roadPrev = <<>>
    /\ PathIdle
    /\ ValidIdle
    /\ VorIdle
    /\ LibIdle

RoadCall ==
    /\ pc = "road_call"
    /\ rd' = road_enter(FmtCoordList(seedsIn), FmtCoordList(SortCells(validIn)),
                        FmtCoordList(SortCells(occupiedIn)), targetIn)
    /\ pc' = "road_run"
    /\ UNCHANGED <<roadInputs, roadRet, roadPrev, pathVars, validVars, vorVars, libVars>>

RoadFirstSeed ==
    /\ pc = "road_run" /\ rd.phase = "first_seed"
    /\ \E seed \in rd.todo : rd' = road_first_seed(rd, seed)
    /\ UNCHANGED <<pc, roadInputs, roadRet, roadPrev, pathVars, validVars, vorVars, libVars>>

RoadNextSeed ==
    /\ pc = "road_run" /\ rd.phase = "next_seed"
    /\ \E seed \in rd.todo : rd' \in road_next_seed(rd, seed)
    /\ UNCHANGED <<pc, roadInputs, roadRet, roadPrev, pathVars, validVars, vorVars, libVars>>

RoadExpand ==
    /\ pc = "road_run" /\ rd.phase = "expand"
    /\ road_expand_more(rd)
    /\ \E best \in road_best_pairs(rd) : rd' = road_expand(rd, best)
    /\ UNCHANGED <<pc, roadInputs, roadRet, roadPrev, pathVars, validVars, vorVars, libVars>>

\* the while ends, by its condition or by its break, and the call returns
RoadReturn ==
    /\ pc = "road_run" /\ rd.phase = "expand"
    /\ ~road_expand_more(rd) \/ road_best_pairs(rd) = {}
    /\ rd' = [rd EXCEPT !.phase = "ret"]
    /\ roadRet' = road_result(rd)
    /\ pc' = "road_done"
    /\ UNCHANGED <<roadInputs, roadPrev, pathVars, validVars, vorVars, libVars>>

NextRoad ==
    \/ RoadCall
    \/ RoadFirstSeed
    \/ RoadNextSeed
    \/ RoadExpand
    \/ RoadReturn

SpecRoad == InitRoad /\ [][NextRoad]_vars

\* the same call made again on the same inputs
RoadCallAgain ==
    /\ pc = "road_done" /\ roadPrev = <<>>
    /\ roadPrev' = roadRet
    /\ rd' = road_enter(FmtCoordList(seedsIn), FmtCoordList(SortCells(validIn)),
                        FmtCoordList(SortCells(occupiedIn)), targetIn)
    /\ pc' = "road_run"
    /\ UNCHANGED <<roadInputs, roadRet, pathVars, validVars, vorVars, libVars>>

NextRoadTwice ==
    \/ NextRoad
    \/ RoadCallAgain

SpecRoadTwice == InitRoad /\ [][NextRoadTwice]_vars

(***************************************************************************)
(* SpecVoronoi: one call of generate_voronoi_regions, one seed per step.   *)
(* SpecVoronoiTwice calls it again on the same arguments.                  *)
(***************************************************************************)
CenterList == << <<0, 0>>, <<10, -3>>, <<-2, 1>> >>

Centers == {CenterList[i] : i \in 1..Min(NumCenters, Len(CenterList))}

\* forest_seeds, water_seeds and grass_seeds of a call
SeedRequests ==
    << <<1, 1, 0>>, <<0, 0, 0>>, <<-1, 0, 1>>, <<2, 0, 0>>, <<0, 1, 1>>,
       <<1, 0, 1>>, <<-1, -1, -1>>, <<0, 2, 0>>, <<0, 0, 2>>, <<1, 1, 1>>,
       <<2, 1, 0>>, <<0, 1, 2>> >>

InitVoronoi ==
    /\ pc = "vor_call"
    /\ \E max_layer \in -1..MaxLayer, center \in Centers,
          n \in 1..Min(NumSeedRequests, Len(SeedRequests)) :
          vorIn = [max_layer |-> max_layer, center_q |-> center[1],
                   center_r |-> center[2], forest_seeds |-> SeedRequests[n][1],
                   water_seeds |-> SeedRequests[n][2],
                   grass_seeds |-> SeedRequests[n][3]]
    /\ vr = VrIdle /\ vorRet = EmptyBag /\ vorPrev = NoCall
    /\ PathIdle
    /\ ValidIdle
    /\ RoadIdle
    /\ LibIdle

VorCall ==
    /\ pc = "vor_call"
    /\ vr' = vor_enter(vorIn.max_layer, vorIn.center_q, vorIn.center_r,
                       vorIn.forest_seeds, vorIn.water_seeds, vorIn.grass_seeds)
    /\ pc' = "vor_run"
    /\ UNCHANGED <<vorIn, vorRet, vorPrev, pathVars, validVars, roadVars, libVars>>

\* the grid is empty: the default entry is returned
VorReturnDefault ==
    /\ pc = "vor_run" /\ vr.phase = "ret_default"
    /\ vr' = [vr EXCEPT !.phase = "ret"]
    /\ vorRet' = DefaultEntry
    /\ pc' = "vor_done"
    /\ UNCHANGED <<vorIn, vorPrev, pathVars, validVars, roadVars, libVars>>

VorSeed ==
    /\ pc = "vor_run" /\ vr.phase = "seeds"
    /\ \E cell \in hex_vec_at(vr, seed_index(vr.seed_counter + 1, vr.i, vr.hex_count)) :
           vr' = vor_seed(vr, cell)
    /\ UNCHANGED <<pc, vorIn, vorRet, vorPrev, pathVars, validVars, roadVars, libVars>>

VorForce ==
    /\ pc = "vor_run" /\ vr.phase = "force"
    /\ \E cell \in hex_vec_at(vr, 0) : vr' = vor_force(vr, cell)
    /\ UNCHANGED <<pc, vorIn, vorRet, vorPrev, pathVars, validVars, roadVars, libVars>>

VorAssign ==
    /\ pc = "vor_run" /\ vr.phase = "assign"
    /\ vr' = [vr EXCEPT !.phase = "ret"]
    /\ vorRet' = vor_result(vr)
    /\ pc' = "vor_done"
    /\ UNCHANGED <<vorIn, vorPrev, pathVars, validVars, roadVars, libVars>>

NextVoronoi ==
    \/ VorCall
    \/ VorReturnDefault
    \/ VorSeed
    \/ VorForce
    \/ VorAssign

SpecVoronoi == InitVoronoi /\ [][NextVoronoi]_vars

\* the same call made again on the same arguments
VorCallAgain ==
    /\ pc = "vor_done" /\ ~vorPrev.called
    /\ vorPrev' = [seeds |-> vr.seeds, records |-> vorRet, called |-> TRUE]
    /\ vr' = vor_enter(vorIn.max_layer, vorIn.center_q, vorIn.center_r,
                       vorIn.forest_seeds, vorIn.water_seeds, vorIn.grass_seeds)
    /\ pc' = "vor_run"
    /\ UNCHANGED <<vorIn, vorRet, pathVars, validVars, roadVars, libVars>>

NextVoronoiTwice ==
    \/ NextVoronoi
    \/ VorCallAgain

SpecVoronoiTwice == InitVoronoi /\ [][NextVoronoiTwice]_vars

\* every two cells of S are joined by a chain of hex-adjacent cells of S
AllPairsConnected(S) == \A a, b \in S : ShortestLen(S, a, b) # -1

\* C5: validate_road_connectivity returns true exactly when every two listed
\* cells are joined by a chain of hex-adjacent listed cells; true for the
\* empty list and for one cell, false for two cells that are not adjacent.
C5_Connectivity ==
    pc = "valid_done" =>
        /\ validRet = AllPairsConnected(SeqToSet(roadsIn))
        /\ Len(roadsIn) <= 1 => validRet
        /\ (Len(roadsIn) = 2 /\ roadsIn[1] # roadsIn[2]
              /\ ~HexAdjacent(roadsIn[1], roadsIn[2])) => ~validRet

\* three roads in a chain whose source does not touch the last one
C5_Witness ==
    /\ pc = "valid_done" /\ Len(roadsIn) = 3 /\ validRet
    /\ ~HexAdjacent(roadsIn[1], roadsIn[3]) /\ roadsIn[1] # roadsIn[3]

\* a list refused although its second road is reachable from the source
C5_WitnessRefused ==
    /\ pc = "valid_done" /\ Len(roadsIn) = 3 /\ ~validRet
    /\ HexAdjacent(roadsIn[1], roadsIn[2])
RoadRunning == pc \in {"road_run", "road_done"}

\* valid terrain minus occupied, from the inputs
EffectiveTerrain == validIn \ occupiedIn

\* C6: the connected set is one connected component after Phase 1 and after
\* every step of Phase 2, and validate_road_connectivity accepts the output.
C6_OneComponent ==
    /\ RoadRunning => AllPairsConnected(rd.connected)
    /\ pc = "road_done" =>
         /\ PathOf(roadRet) = SortCells(rd.connected)
         /\ validate_road_connectivity(roadRet)

\* two seeds at distance 2 were joined by a path and the network then grew
C6_Witness ==
    /\ pc = "road_done"
    /\ \E a, b \in rd.seeds \cap rd.connected :
           hex_distance(a[1], a[2], b[1], b[2]) = 2
    /\ Cardinality(rd.connected) >= 4

\* C7: the connected set and the unconnected pool are disjoint subsets of the
\* effective terrain at every step, so every cell of the output is valid and
\* not occupied.
C7_EffectiveTerrain ==
    /\ RoadRunning =>
         /\ rd.connected \subseteq EffectiveTerrain
         /\ rd.unconnected \subseteq EffectiveTerrain
         /\ rd.connected \cap rd.unconnected = {}
    /\ pc = "road_done" =>
         \A k \in 1..Len(PathOf(roadRet)) :
             /\ PathOf(roadRet)[k] \in validIn
             /\ PathOf(roadRet)[k] \notin occupiedIn

\* a network of three cells or more returned around an occupied valid cell
\* that is also a seed
C7_Witness ==
    /\ pc = "road_done"
    /\ \E c \in occupiedIn : c \in validIn /\ c \in rd.seeds
    /\ Len(PathOf(roadRet)) >= 3

\* C8 as claimed: a second call on the same seeds, valid terrain, occupied
\* cells and target count returns the same text as the first.
C8_SameResult ==
    (pc = "road_done" /\ roadPrev # <<>>) => roadRet = roadPrev
(***************************************************************************)
(* generate_voronoi_regions against the hex disk and the nearest seed.     *)
(***************************************************************************)
VorReturned == pc = "vor_done"

\* the cells at hex distance at most max_layer from the centre
Disk ==
    LET n == vorIn.max_layer + 1
    IN  {c \in ((vorIn.center_q - n)..(vorIn.center_q + n))
                 \X ((vorIn.center_r - n)..(vorIn.center_r + n)) :
            hex_distance(c[1], c[2], vorIn.center_q, vorIn.center_r) <= vorIn.max_layer}

KindRank(tile_type) == IF tile_type = Forest THEN 1 ELSE IF tile_type = Water THEN 2 ELSE 3

SeedDistance(rec, k) == hex_distance(rec.q, rec.r, vr.seeds[k].q, vr.seeds[k].r)

\* seed k is the first of the seeds nearest to the cell of rec
FirstNearest(rec, k) ==
    /\ \A j \in 1..Len(vr.seeds) : SeedDistance(rec, k) <= SeedDistance(rec, j)
    /\ \A j \in 1..(k - 1) : SeedDistance(rec, j) # SeedDistance(rec, k)

OneRecordPerDiskCell ==
    /\ {<<rec.q, rec.r>> : rec \in BagToSet(vorRet)} = Disk
    /\ BagCardinality(vorRet) = Cardinality(Disk)
    /\ \A j, k \in 1..Len(vr.seeds) :
           j < k => KindRank(vr.seeds[j].tile_type) <= KindRank(vr.seeds[k].tile_type)
    /\ \A rec \in BagToSet(vorRet) :
           \E k \in 1..Len(vr.seeds) :
               /\ FirstNearest(rec, k)
               /\ rec.tileType = vr.seeds[k].tile_type

\* C9 as stated: the returned list holds exactly one record for every cell of
\* the hex disk and for no other cell, and the record's tile type is that of
\* the first seed, in the order forest, water, grass, among the seeds nearest
\* to the cell.
C9_Original == VorReturned => OneRecordPerDiskCell

\* C9, amended: when the hex disk has a cell (max_layer is not negative), the
\* returned list holds exactly one record for every cell of the disk and for
\* no other cell, and the record's tile type is that of the first seed, in
\* the order forest, water, grass, among the seeds nearest to the cell.
C9_DiskRecords == (VorReturned /\ vorIn.max_layer >= 0) => OneRecordPerDiskCell

\* C9 witness: a returned list of a disk of seven cells or more in which a
\* cell has two nearest seeds of different types.
C9_Witness ==
    /\ VorReturned /\ vorIn.max_layer >= 1
    /\ \E rec \in BagToSet(vorRet) : \E j, k \in 1..Len(vr.seeds) :
           /\ j < k
           /\ FirstNearest(rec, j)
           /\ SeedDistance(rec, k) = SeedDistance(rec, j)
           /\ vr.seeds[j].tile_type # vr.seeds[k].tile_type

\* C10: two calls with the same arguments put their seeds on the same cells
\* and return the same record for every cell.
C10_SameRegions ==
    (VorReturned /\ vorPrev.called) =>
        /\ vr.seeds = vorPrev.seeds
        /\ vorRet = vorPrev.records
\* C11: generate_voronoi_regions never returns an empty list, whatever the
\* radius, the centre and the seed counts, negative ones included; and when
\* the radius is negative, so that the hex disk is empty, the list returned
\* is exactly the one record q = 0, r = 0, tileType = 0.
C11_NeverEmpty ==
    VorReturned =>
        /\ BagCardinality(vorRet) >= 1
        /\ vorIn.max_layer < 0 =>
               /\ BagToSet(vorRet) = {[q |-> 0, r |-> 0, tileType |-> 0]}
               /\ BagCardinality(vorRet) = 1

\* C11 witness: a call with a negative radius and a negative seed count has
\* returned.
C11_Witness ==
    /\ VorReturned
    /\ vorIn.max_layer < 0
    /\ vorIn.forest_seeds < 0
    /\ Disk = {}
(***************************************************************************)
(* SpecDistance: hex_distance and cube_distance called on three axial      *)
(* coordinates a, b and c.                                                 *)
(***************************************************************************)
Coords == (-MaxCoord..MaxCoord) \X (-MaxCoord..MaxCoord)

InitDistance ==
    /\ pc = "dist_call"
    /\ distIn \in Coords \X Coords \X Coords
    /\ distRet = <<>>
    /\ HexIdle
    /\ WfcIdle
    /\ LockIdle
    /\ IdxIdle
    /\ SearchIdle

DistCall ==
    /\ pc = "dist_call"
    /\ LET a == distIn[1]
           b == distIn[2]
           c == distIn[3]
       IN  distRet' = [ab |-> hex_distance(a[1], a[2], b[1], b[2]),
                       ba |-> hex_distance(b[1], b[2], a[1], a[2]),
                       bc |-> hex_distance(b[1], b[2], c[1], c[2]),
                       ac |-> hex_distance(a[1], a[2], c[1], c[2]),
                       cube_ab |-> cube_distance(axial_to_cube(a[1], a[2]),
                                                 axial_to_cube(b[1], b[2]))]
    /\ pc' = "dist_done"
    /\ UNCHANGED <<distIn, hexVars, wfcVars, lockVars, idxVars, searchVars>>

NextDistance == DistCall

SpecDistance == InitDistance /\ [][NextDistance]_vars

DistReturned == pc = "dist_done"

\* C12: for all axial coordinates a, b, c of the range, hex_distance(a, b) is
\* 0 exactly when a = b, hex_distance(a, b) = hex_distance(b, a), and
\* hex_distance(a, c) <= hex_distance(a, b) + hex_distance(b, c).
C12_Metric ==
    DistReturned =>
        /\ (distRet.ab = 0) <=> (distIn[1] = distIn[2])
        /\ distRet.ab = distRet.ba
        /\ distRet.ac <= distRet.ab + distRet.bc

\* C12 witness: three different coordinates, b off every shortest way from a
\* to c.
C12_Witness ==
    /\ DistReturned
    /\ distRet.ab > 0 /\ distRet.bc > 0 /\ distRet.ac > 0
    /\ distRet.ac < distRet.ab + distRet.bc

\* C13: for all axial coordinates a and b of the range, hex_distance(a, b) is
\* cube_distance of their cube forms: |dq| + |dr| + |ds| is even and its half
\* is the largest of |dq|, |dr| and |ds|.
C13_SameDistance ==
    DistReturned =>
        LET dq == Abs(distIn[1][1] - distIn[2][1])
            dr == Abs(distIn[1][2] - distIn[2][2])
            ds == Abs((distIn[1][1] + distIn[1][2]) - (distIn[2][1] + distIn[2][2]))
        IN  /\ distRet.ab = distRet.cube_ab
            /\ (dq + dr + ds) % 2 = 0
            /\ \E m \in {dq, dr, ds} :
                   /\ m >= dq /\ m >= dr /\ m >= ds
                   /\ 2 * m = dq + dr + ds
                   /\ distRet.cube_ab = m

\* C13 witness: two coordinates whose largest difference is the s difference.
C13_Witness ==
    /\ DistReturned
    /\ distRet.cube_ab >= 2
    /\ distRet.cube_ab > Abs(distIn[1][1] - distIn[2][1])
    /\ distRet.cube_ab > Abs(distIn[1][2] - distIn[2][2])
(***************************************************************************)
(* SpecHexGrid: cube_ring and generate_hex_grid called on a centre and a   *)
(* radius.                                                                 *)
(***************************************************************************)
InitHexGrid ==
    /\ pc = "hex_call"
    /\ \E center \in Coords, n \in -1..MaxRing :
           hexIn = [center_q |-> center[1], center_r |-> center[2], n |-> n]
    /\ ringRet = <<>> /\ gridRet = <<>>
    /\ DistIdle
    /\ WfcIdle
    /\ LockIdle
    /\ IdxIdle
    /\ SearchIdle

HexCenter == CubeCoord(hexIn.center_q, hexIn.center_r, -hexIn.center_q - hexIn.center_r)

\* cube_ring(center, radius)
RingCall ==
    /\ pc = "hex_call"
    /\ ringRet' = [results |-> cube_ring(HexCenter, hexIn.n),
                   walked |-> hexIn.n # 0,
                   first |-> cube_ring_start(HexCenter, hexIn.n),
                   last |-> cube_ring_loops(HexCenter, hexIn.n).current_hex]
    /\ pc' = "ring_done"
    /\ UNCHANGED <<hexIn, gridRet, distVars, wfcVars, lockVars, idxVars, searchVars>>

\* generate_hex_grid(max_layer, center_q, center_r)
GridCall ==
    /\ pc = "hex_call"
    /\ gridRet' = [grid |-> hex_grid_vec(hexIn.n, hexIn.center_q, hexIn.center_r),
                   discarded |-> Cardinality({x \in hex_grid_set(hexIn.n, HexCenter) :
                                                 x.q + x.r + x.s # 0})]
    /\ pc' = "grid_done"
    /\ UNCHANGED <<hexIn, ringRet, distVars, wfcVars, lockVars, idxVars, searchVars>>

NextHexGrid ==
    \/ RingCall
    \/ GridCall

SpecHexGrid == InitHexGrid /\ [][NextHexGrid]_vars

RingReturned == pc = "ring_done"

GridReturned == pc = "grid_done"

\* C14: cube_ring(center, 0) is exactly [center]; for a radius k >= 1 it is
\* 6k pairwise distinct cells, each with q + r + s = 0 and each at hex
\* distance exactly k from the center, and the walk ends on the cell it
\* started from.
C14_Ring ==
    RingReturned =>
        LET ring == ringRet.results
            k == hexIn.n
        IN  /\ k = 0 => ring = <<HexCenter>>
            /\ k >= 1 =>
                 /\ Len(ring) = 6 * k
                 /\ \A i, j \in 1..Len(ring) : i # j => ring[i] # ring[j]
                 /\ \A i \in 1..Len(ring) :
                        /\ ring[i].q + ring[i].r + ring[i].s = 0
                        /\ hex_distance(ring[i].q, ring[i].r,
                                        hexIn.center_q, hexIn.center_r) = k
                 /\ ringRet.walked
                 /\ ringRet.first = ring[1]
                 /\ ringRet.last = ringRet.first

\* C14 witness: a ring of radius 2 or more around a centre other than (0, 0)
\* has been returned.
C14_Witness ==
    /\ RingReturned
    /\ hexIn.n >= 2
    /\ hexIn.center_q # 0 /\ hexIn.center_r # 0
    /\ Len(ringRet.results) >= 12

\* the cells at hex distance at most n from the centre of hexIn
GridDisk ==
    LET n == hexIn.n
    IN  {c \in ((hexIn.center_q - n)..(hexIn.center_q + n))
                 \X ((hexIn.center_r - n)..(hexIn.center_r + n)) :
            hex_distance(hexIn.center_q, hexIn.center_r, c[1], c[2]) <= n}

\* C15: for every centre and every max_layer N >= 0, generate_hex_grid returns
\* each cell at hex distance at most N from the centre exactly once and no
\* other cell: 1 + 3N(N+1) cells, none discarded by the q + r + s = 0 filter.
C15_HexGrid ==
    (GridReturned /\ hexIn.n >= 0) =>
        /\ BagToSet(gridRet.grid) = GridDisk
        /\ \A h \in BagToSet(gridRet.grid) : CopiesIn(h, gridRet.grid) = 1
        /\ BagCardinality(gridRet.grid) = 1 + 3 * hexIn.n * (hexIn.n + 1)
        /\ gridRet.discarded = 0

\* C15 witness: a grid of max_layer 2 or more around a centre other than
\* (0, 0) has been returned.
C15_Witness ==
    /\ GridReturned
    /\ hexIn.n >= 2
    /\ hexIn.center_q # 0 /\ hexIn.center_r # 0
    /\ BagCardinality(gridRet.grid) >= 19
(***************************************************************************)
(* SpecGrid: the grid-state functions called one after another, in any     *)
(* order, on WFC_STATE.  lastOp names the call that returned last; layout  *)
(* remembers the grid of the last generate_layout and what was called      *)
(* since.                                                                  *)
(***************************************************************************)
GridCellList == << <<0, 0>>, <<1, -1>>, <<-2, 3>>, <<49, 49>> >>

GridCells == {GridCellList[i] : i \in 1..Min(NumGridCells, Len(GridCellList))}

TileCodeList == <<0, 4, -1, 5, 3, 1, 2, 6>>

TileCodes == {TileCodeList[i] : i \in 1..Min(NumTileCodes, Len(TileCodeList))}

\* the history once a function other than generate_layout has returned
Since(h) == [h EXCEPT !.again = FALSE, !.afterClear = FALSE, !.dropped = FALSE]

InitGrid ==
    /\ pc = "wfc"
    /\ WFC_STATE = WfcState_new
    /\ lastOp = NoOp
    /\ layout = NoLayout
    /\ LockIdle
    /\ IdxIdle
    /\ DistIdle
    /\ HexIdle
    /\ SearchIdle

GenerateLayout ==
    /\ pc = "wfc"
    /\ WFC_STATE' = generate_layout(WFC_STATE)
    /\ lastOp' = [NoOp EXCEPT !.op = "generate_layout"]
    /\ layout' = [made |-> TRUE, grid |-> WFC_STATE'.grid, touched |-> FALSE,
                  cleared |-> FALSE, again |-> layout.made /\ ~layout.touched,
                  afterClear |-> layout.cleared,
                  dropped |-> \E k \in DOMAIN WFC_STATE.grid :
                                  k \notin DOMAIN WFC_STATE.pre_constraints]
    /\ UNCHANGED <<pc, distVars, hexVars, searchVars, lockVars, idxVars>>

GetTileAt ==
    /\ pc = "wfc"
    /\ \E c \in GridCells :
           lastOp' = [NoOp EXCEPT !.op = "get_tile_at", !.q = c[1], !.r = c[2],
                                  !.ret = get_tile_at(WFC_STATE, c[1], c[2])]
    /\ layout' = Since(layout)
    /\ UNCHANGED <<pc, WFC_STATE, distVars, hexVars, searchVars, lockVars, idxVars>>

ClearLayout ==
    /\ pc = "wfc"
    /\ WFC_STATE' = clear_layout(WFC_STATE)
    /\ lastOp' = [NoOp EXCEPT !.op = "clear_layout"]
    /\ layout' = [Since(layout) EXCEPT !.cleared = TRUE]
    /\ UNCHANGED <<pc, distVars, hexVars, searchVars, lockVars, idxVars>>

SetPreConstraint ==
    /\ pc = "wfc"
    /\ \E c \in GridCells, tile_type \in TileCodes :
           LET done == set_pre_constraint(WFC_STATE, c[1], c[2], tile_type)
           IN  /\ WFC_STATE' = done.state
               /\ lastOp' = [op |-> "set_pre_constraint", q |-> c[1], r |-> c[2],
                             tile_type |-> tile_type, ret |-> done.ret,
                             replaced |-> /\ done.ret
                                          /\ c \in DOMAIN WFC_STATE.pre_constraints
                                          /\ WFC_STATE.pre_constraints[c]
                                                 # done.state.pre_constraints[c]]
    /\ layout' = [Since(layout) EXCEPT !.touched = TRUE]
    /\ UNCHANGED <<pc, distVars, hexVars, searchVars, lockVars, idxVars>>

ClearPreConstraints ==
    /\ pc = "wfc"
    /\ WFC_STATE' = clear_pre_constraints(WFC_STATE)
    /\ lastOp' = [NoOp EXCEPT !.op = "clear_pre_constraints"]
    /\ layout' = [Since(layout) EXCEPT !.touched = TRUE]
    /\ UNCHANGED <<pc, distVars, hexVars, searchVars, lockVars, idxVars>>

GetStats ==
    /\ pc = "wfc"
    /\ lastOp' = [NoOp EXCEPT !.op = "get_stats", !.ret = get_stats(WFC_STATE)]
    /\ layout' = Since(layout)
    /\ UNCHANGED <<pc, WFC_STATE, distVars, hexVars, searchVars, lockVars, idxVars>>

NextGrid ==
    \/ GenerateLayout
    \/ GetTileAt
    \/ ClearLayout
    \/ SetPreConstraint
    \/ ClearPreConstraints
    \/ GetStats

SpecGrid == InitGrid /\ [][NextGrid]_vars
Returned(op) == lastOp.op = op

\* the step is the return of a call of op
Returns(op) == lastOp'.op = op

\* C16: clear_layout empties the grid and leaves the pre-constraints as they
\* were; and in every step the pre-constraints change only when
\* set_pre_constraint was called with a tile code of 0..4 or
\* clear_pre_constraints was called, never in clear_layout, generate_layout,
\* get_tile_at or get_stats.
C16_PreConstraintsFrame ==
    [][ /\ Returns("clear_layout") =>
              /\ WFC_STATE'.grid = EmptyMap
              /\ WFC_STATE'.pre_constraints = WFC_STATE.pre_constraints
        /\ WFC_STATE'.pre_constraints # WFC_STATE.pre_constraints =>
              \/ Returns("set_pre_constraint") /\ lastOp'.tile_type \in 0..4
              \/ Returns("clear_pre_constraints")
      ]_vars

\* C16 witness: clear_layout has returned after a layout with cells, the
\* pre-constraints still there.
C16_Witness ==
    /\ Returned("clear_layout")
    /\ layout.made /\ layout.grid # EmptyMap /\ ~layout.touched
    /\ WFC_STATE.pre_constraints = layout.grid
    /\ WFC_STATE.grid = EmptyMap

C18_Idempotent ==
    [][ Returns("generate_layout") =>
          /\ (layout.made /\ ~layout.touched) => WFC_STATE'.grid = layout.grid
          /\ (layout.made /\ ~layout.touched /\ Returned("clear_layout")) =>
                 /\ WFC_STATE.grid = EmptyMap
                 /\ WFC_STATE'.grid = layout.grid
      ]_vars

\* C18 witness: generate_layout has returned after an earlier layout and a
\* clear_layout, no pre-constraint call in between, on a grid with cells.
C18_Witness ==
    /\ Returned("generate_layout")
    /\ layout.again /\ layout.afterClear
    /\ WFC_STATE.grid # EmptyMap

\* C19: set_pre_constraint with a tile code outside 0..4 returns false and
\* leaves the pre-constraints and the grid as they were; with a code of 0..4
\* it returns true and the pre-constraint at (q, r) is that tile type, in
\* place of an earlier one there, every other coordinate as it was.
C19_SetPreConstraint ==
    [][ Returns("set_pre_constraint") =>
          LET key == <<lastOp'.q, lastOp'.r>>
              code == lastOp'.tile_type
              before == WFC_STATE.pre_constraints
              after == WFC_STATE'.pre_constraints
          IN  /\ code \notin 0..4 =>
                    /\ lastOp'.ret = FALSE
                    /\ after = before
                    /\ WFC_STATE'.grid = WFC_STATE.grid
              /\ code \in 0..4 =>
                    /\ lastOp'.ret = TRUE
                    /\ DOMAIN after = DOMAIN before \cup {key}
                    /\ after[key] = code
                    /\ \A k \in DOMAIN before \ {key} : after[k] = before[k]
      ]_vars

\* C19 witness: set_pre_constraint has put a tile type in place of another
\* one, a second coordinate holding a pre-constraint too.
C19_Witness ==
    /\ Returned("set_pre_constraint")
    /\ lastOp.replaced
    /\ Cardinality(DOMAIN WFC_STATE.pre_constraints) >= 2

\* C20: get_tile_at reads the grid only: it returns -1 for a coordinate that
\* is not in the grid and otherwise the grid's tile code, one of 0..4, and it
\* changes nothing; and neither set_pre_constraint nor clear_pre_constraints
\* changes what get_tile_at returns for any coordinate.
C20_GetTileAt ==
    /\ [](Returned("get_tile_at") =>
            LET key == <<lastOp.q, lastOp.r>>
            IN  /\ key \notin DOMAIN WFC_STATE.grid => lastOp.ret = -1
                /\ key \in DOMAIN WFC_STATE.grid =>
                       /\ lastOp.ret = WFC_STATE.grid[key]
                       /\ lastOp.ret \in 0..4)
    /\ [][ /\ Returns("get_tile_at") => WFC_STATE' = WFC_STATE
           /\ (Returns("set_pre_constraint") \/ Returns("clear_pre_constraints")) =>
                  \A c \in SeqToSet(GridCellList) :
                      get_tile_at(WFC_STATE', c[1], c[2]) = get_tile_at(WFC_STATE, c[1], c[2])
         ]_vars

\* C20 witness: get_tile_at has returned for a coordinate whose
\* pre-constraint was changed since the layout that the grid holds.
C20_Witness ==
    /\ Returned("get_tile_at")
    /\ layout.touched
    /\ <<lastOp.q, lastOp.r>> \in DOMAIN WFC_STATE.grid
    /\ <<lastOp.q, lastOp.r>> \in DOMAIN WFC_STATE.pre_constraints
    /\ WFC_STATE.pre_constraints[<<lastOp.q, lastOp.r>>] # lastOp.ret
(***************************************************************************)
(* SpecGridLocked: the grid-state functions called by interleaved callers, *)
(* one statement group per step.  Each function starts with                *)
(* WFC_STATE.lock().unwrap() and keeps the guard until it returns.         *)
(***************************************************************************)
Callers == {"first", "second"}

CallerIdle == [op |-> "none", pc |-> "idle", q |-> 0, r |-> 0, tile_type |-> 0,
               pre |-> EmptyMap, todo |-> {}, ret |-> <<>>]

\* the tile codes the interleaved callers set
LockedCodes == {Grass, Water}

\* lock() returning whoever holds the Mutex
lock_unguarded(m) == TRUE

\* WFC_STATE.lock() returns only when no guard is alive
lock_ready(m) == m = "free"

InitGridLocked ==
    /\ pc = "wfc_locked"
    /\ mutex = "free"
    /\ callers = [c \in Callers |-> CallerIdle]
    /\ committed = WfcState_new
    /\ WfcIdle
    /\ DistIdle
    /\ HexIdle
    /\ IdxIdle
    /\ SearchIdle

LockedFrame == UNCHANGED <<pc, lastOp, layout, distVars, hexVars, idxVars, searchVars>>

GridOps == {"generate_layout", "get_tile_at", "clear_layout", "set_pre_constraint",
            "clear_pre_constraints", "get_stats"}

\* a caller calls one of the functions: it is at the lock() of that function
LkCall(c) ==
    /\ callers[c].pc = "idle"
    /\ \E op \in GridOps, cell \in GridCells, tile_type \in LockedCodes :
           /\ op \notin {"get_tile_at", "set_pre_constraint"} => cell = GridCellList[1]
           /\ op # "set_pre_constraint" => tile_type = Grass
           /\ callers' = [callers EXCEPT ![c] =
                  [CallerIdle EXCEPT !.op = op, !.pc = "lock", !.q = cell[1],
                                     !.r = cell[2], !.tile_type = tile_type]]
    /\ UNCHANGED <<mutex, committed, WFC_STATE>>
    /\ LockedFrame

\* lock() returns the guard
LkAcquire(c) ==
    /\ callers[c].pc = "lock"
    /\ lock_ready(mutex)
    /\ mutex' = c
    /\ callers' = [callers EXCEPT ![c].pc = "locked"]
    /\ UNCHANGED <<committed, WFC_STATE>>
    /\ LockedFrame

\* the body of a function other than generate_layout
LkBody(c) ==
    /\ callers[c].pc = "locked"
    /\ callers[c].op # "generate_layout"
    /\ LET me == callers[c]
           set == set_pre_constraint(WFC_STATE, me.q, me.r, me.tile_type)
       IN  /\ WFC_STATE' =
                 CASE me.op = "clear_layout" -> clear_layout(WFC_STATE)
                   [] me.op = "set_pre_constraint" -> set.state
                   [] me.op = "clear_pre_constraints" -> clear_pre_constraints(WFC_STATE)
                   [] OTHER -> WFC_STATE
           /\ callers' = [callers EXCEPT ![c].pc = "done", ![c].ret =
                 CASE me.op = "get_tile_at" -> get_tile_at(WFC_STATE, me.q, me.r)
                   [] me.op = "get_stats" -> get_stats(WFC_STATE)
                   [] me.op = "set_pre_constraint" -> set.ret
                   [] OTHER -> <<>>]
    /\ UNCHANGED <<mutex, committed>>
    /\ LockedFrame

\* generate_layout: state.clear()
LkGenClear(c) ==
    /\ callers[c].pc = "locked"
    /\ callers[c].op = "generate_layout"
    /\ WFC_STATE' = WfcState_clear(WFC_STATE)
    /\ callers' = [callers EXCEPT ![c].pc = "cleared"]
    /\ UNCHANGED <<mutex, committed>>
    /\ LockedFrame

\* generate_layout: the pre-constraints collected into a Vec
LkGenCollect(c) ==
    /\ callers[c].pc = "cleared"
    /\ callers' = [callers EXCEPT
           ![c].pre = WFC_STATE.pre_constraints,
           ![c].todo = DOMAIN WFC_STATE.pre_constraints,
           ![c].pc = IF WFC_STATE.pre_constraints = EmptyMap THEN "done" ELSE "copy"]
    /\ UNCHANGED <<mutex, committed, WFC_STATE>>
    /\ LockedFrame

\* generate_layout: one state.grid.insert of the loop over the Vec, whose
\* order is the HashMap's
LkGenInsert(c) ==
    /\ callers[c].pc = "copy"
    /\ \E key \in callers[c].todo :
           /\ WFC_STATE' = [WFC_STATE EXCEPT
                  !.grid = MapInsert(@, key, callers[c].pre[key])]
           /\ callers' = [callers EXCEPT
                  ![c].todo = @ \ {key},
                  ![c].pc = IF callers[c].todo = {key} THEN "done" ELSE "copy"]
    /\ UNCHANGED <<mutex, committed>>
    /\ LockedFrame

\* the function returns: its guard is dropped
LkReturn(c) ==
    /\ callers[c].pc = "done"
    /\ mutex' = "free"
    /\ committed' = WFC_STATE
    /\ callers' = [callers EXCEPT ![c] = CallerIdle]
    /\ UNCHANGED WFC_STATE
    /\ LockedFrame

NextGridLocked ==
    \E c \in Callers :
        \/ LkCall(c)
        \/ LkAcquire(c)
        \/ LkBody(c)
        \/ LkGenClear(c)
        \/ LkGenCollect(c)
        \/ LkGenInsert(c)
        \/ LkReturn(c)

SpecGridLocked == InitGridLocked /\ [][NextGridLocked]_vars

\* the caller is between lock() and its return
Holding(c) == callers[c].pc \in {"locked", "cleared", "copy", "done"}

\* C21: callers interleaving the grid-state functions never hold the lock
\* two at once, and every function takes effect as a whole: what get_tile_at
\* and get_stats return is their value on the state the last returned
\* function left, never on the grid of a generate_layout that has cleared
\* but not yet copied every pre-constraint; and generate_layout leaves what
\* it leaves when run alone.
C21_Atomic ==
    /\ \A c1, c2 \in Callers : (Holding(c1) /\ Holding(c2)) => c1 = c2
    /\ \A c \in Callers : Holding(c) => mutex = c
    /\ \A c \in Callers : callers[c].pc = "done" =>
           /\ callers[c].op = "get_tile_at" =>
                  callers[c].ret = get_tile_at(committed, callers[c].q, callers[c].r)
           /\ callers[c].op = "get_stats" => callers[c].ret = get_stats(committed)
           /\ callers[c].op = "generate_layout" => WFC_STATE = generate_layout(committed)

\* C21 witness: a generate_layout has cleared the grid and copied one of two
\* pre-constraints while another caller waits at the lock of get_tile_at
\* for a cell not copied yet.
C21_Witness ==
    \E c1, c2 \in Callers :
        /\ callers[c1].op = "generate_layout" /\ callers[c1].pc = "copy"
        /\ DOMAIN WFC_STATE.grid # {}
        /\ callers[c2].op = "get_tile_at" /\ callers[c2].pc = "lock"
        /\ <<callers[c2].q, callers[c2].r>> \in callers[c1].todo
        /\ <<callers[c2].q, callers[c2].r>> \in DOMAIN committed.grid
(***************************************************************************)
(* generate_road_network_growing_tree: the seeds, the early end and the    *)
(* steps of Phase 2.                                                       *)
(***************************************************************************)
RoadReturned == pc = "road_done"

\* the cells of the returned list
RoadOutput == SeqToSet(PathOf(roadRet))

\* every seed is on the effective terrain and they are all in one connected
\* component of it
SeedsTogether ==
    /\ SeqToSet(seedsIn) \subseteq EffectiveTerrain
    /\ \A a, b \in SeqToSet(seedsIn) : ShortestLen(EffectiveTerrain, a, b) # -1

\* C22: when every seed is on the effective terrain and all seeds are in one
\* connected component of it, the output holds every seed and so has at
\* least as many cells as there are distinct seeds, whatever target_count is,
\* one below the number of seeds included.
C22_AllSeeds ==
    (RoadReturned /\ SeedsTogether) =>
        /\ SeqToSet(seedsIn) \subseteq RoadOutput
        /\ Len(PathOf(roadRet)) >= Cardinality(SeqToSet(seedsIn))

\* C22 witness: a call with two seeds or more that are not all adjacent and
\* a target_count below the number of seeds has returned.
C22_Witness ==
    /\ RoadReturned /\ SeedsTogether
    /\ targetIn < Len(seedsIn)
    /\ \E a, b \in SeqToSet(seedsIn) : hex_distance(a[1], a[2], b[1], b[2]) = 2

\* C23: whenever the first seed of the input list is on the effective
\* terrain, it is in the output, whatever the other seeds are.
C23_FirstListedSeed ==
    (RoadReturned /\ seedsIn # <<>> /\ seedsIn[1] \in EffectiveTerrain) =>
        seedsIn[1] \in RoadOutput
\* C24: when the call returns fewer cells than target_count, the output is
\* empty or it is a whole connected component of the effective terrain: no
\* effective-terrain cell outside the output can be reached from a cell of
\* the output.
C24_WholeComponent ==
    (RoadReturned /\ Len(PathOf(roadRet)) < targetIn) =>
        \/ RoadOutput = {}
        \/ \A o \in RoadOutput : \A c \in EffectiveTerrain \ RoadOutput :
               ShortestLen(EffectiveTerrain, o, c) = -1

\* C24 witness: a call returned a network of two cells or more, short of
\* target_count, and left effective terrain outside it.
C24_Witness ==
    /\ RoadReturned /\ Len(PathOf(roadRet)) < targetIn
    /\ Cardinality(RoadOutput) >= 2
    /\ EffectiveTerrain \ RoadOutput # {}

\* a step of the call is possible: the function has not returned.  This is
\* ENABLED <<NextRoad>>_vars written out (C25_Terminates checks that every
\* iteration of Phase 2 changes the state, the other steps change rd.todo,
\* rd.phase or pc).
RoadStepEnabled == pc # "road_done"

\* the guard of one of the actions of NextRoad holds
RoadCanStep ==
    \/ pc = "road_call"
    \/ pc = "road_run" /\ rd.phase \in {"first_seed", "next_seed"} /\ rd.todo # {}
    \/ pc = "road_run" /\ rd.phase = "expand"

\* SpecRoadFair: one call under weak fairness of NextRoad.  The function is
\* one sequential loop that nothing suspends, so a step that stays possible
\* is taken.  The inputs are those of SpecRoad over fewer cells, with no
\* occupied cell: the two phases see the effective terrain only.
NumFairCells == 5
NumFairSeedCells == 2

InitRoadFair ==
    /\ pc = "road_call"
    /\ seedsIn \in {SortCells(S) : S \in SUBSET FirstRoadCells(NumFairSeedCells)}
    /\ validIn \in SUBSET FirstRoadCells(NumFairCells)
    /\ occupiedIn = {}
    /\ targetIn \in 0..MaxTarget
    /\ rd = RdIdle /\ roadRet = <<>> /\ roadPrev = <<>>
    /\ PathIdle
    /\ ValidIdle
    /\ VorIdle
    /\ LibIdle

RoadFairness == []<>(~RoadStepEnabled) \/ []<><<NextRoad>>_vars
SpecRoadFair == InitRoadFair /\ [][NextRoad]_vars /\ RoadFairness

\* the cells Phase 2 removed from the pool after no path led to them: the
\* effective terrain that is in neither of the two sets
Dropped(st) == st.valid_terrain_set \ (st.connected \cup st.unconnected)

\* the iteration of Phase 2 from st to nxt, with `best` selected, moves cells
\* from the pool into the network, or removes the selected cell, to which no
\* path leads, from the pool and leaves the network alone
ExpandProgress(st, best, nxt) ==
    \/ /\ st.connected \subseteq nxt.connected /\ nxt.connected # st.connected
       /\ nxt.connected \ st.connected \subseteq st.unconnected
       /\ nxt.unconnected = st.unconnected \ nxt.connected
    \/ /\ nxt.connected = st.connected
       /\ best[1] \in st.unconnected
       /\ hex_astar(best[2], best[1], st.json) = NullStr
       /\ nxt.unconnected = st.unconnected \ {best[1]}

\* C25: Phase 2 comes to an end and the call returns; each iteration moves
\* at least one cell from the pool into the connected set or removes the
\* selected cell, to which no path leads, from the pool (or the loop stops);
\* a removed cell stays out of the pool, so it is not selected again, and out
\* of the connected set, hence out of the output.
C25_Terminates ==
    /\ <>RoadReturned
    /\ [](RoadStepEnabled => RoadCanStep)
    /\ [](pc = "road_run" /\ rd.phase = "expand" /\ road_expand_more(rd) =>
            \A best \in road_best_pairs(rd) :
                ExpandProgress(rd, best, road_expand(rd, best)))
    /\ [][pc = "road_run" =>
            /\ Dropped(rd) \subseteq Dropped(rd')
            /\ Dropped(rd') \cap (rd'.connected \cup rd'.unconnected) = {}
            /\ \A best \in road_best_pairs(rd') : best[1] \notin Dropped(rd)
            /\ (pc' = "road_done" => Dropped(rd) \cap SeqToSet(PathOf(roadRet')) = {})]_vars

\* C25 witness: a call returned after Phase 2 added a cell to the network
\* and removed another from the pool.
C25_Witness ==
    /\ RoadReturned
    /\ Dropped(rd) # {}
    /\ RoadOutput \ SeqToSet(seedsIn) # {}
\* Phase 2 is running: the seeds are done and the call has not returned
RoadExpanding == pc = "road_run" /\ rd.phase = "expand"

\* C26: every iteration of Phase 2 that finds a path has selected an
\* unconnected cell at hex distance exactly 1 from the connected set and adds
\* that cell and no other; so the output has at most max(target_count, n)
\* cells, n the size of the connected set at the end of Phase 1.
C26_OneCellSteps ==
    /\ [](RoadExpanding /\ road_expand_more(rd) =>
            \A best \in road_best_pairs(rd) :
                road_expand(rd, best).connected # rd.connected =>
                    /\ best[1] \in rd.unconnected /\ best[2] \in rd.connected
                    /\ hex_distance(best[1][1], best[1][2], best[2][1], best[2][2]) = 1
                    /\ road_expand(rd, best).connected = rd.connected \cup {best[1]})
    /\ \A n \in 0..Cardinality(FirstRoadCells(NumFairCells)) :
          [](RoadExpanding /\ Cardinality(rd.connected) = n =>
                [](RoadReturned => Len(PathOf(roadRet)) <= Max(targetIn, n)))

\* C26 witness: a call with one seed returned target_count cells, three or
\* more, so Phase 2 added cells twice, one of them not next to the seed.
C26_Witness ==
    /\ RoadReturned
    /\ Len(seedsIn) = 1 /\ targetIn >= 3
    /\ Len(PathOf(roadRet)) = targetIn
    /\ \E c \in RoadOutput :
           hex_distance(c[1], c[2], seedsIn[1][1], seedsIn[1][2]) = 2
(***************************************************************************)
(* SpecDetour: the calls of SpecPath on a terrain where a cell is reached  *)
(* first by a longer way and then by a shorter one, so that the heap holds *)
(* two nodes of one coordinate; under weak fairness of NextPath (the loops *)
(* are sequential and nothing suspends them).                              *)
(***************************************************************************)
DetourCellList ==
    << <<10, 0>>, <<10, 1>>, <<11, 0>>, <<11, 1>>, <<12, 0>>, <<9, 3>>,
       <<11, 2>>, <<10, 3>>, <<12, 1>>, <<9, 2>>, <<10, 2>> >>

NumDetourCells == 8
NumDetourStarts == 2

DetourCells == {DetourCellList[i] : i \in 1..Min(NumDetourCells, Len(DetourCellList))}

InitDetour ==
    /\ pc = "ap_call"
    /\ terrainIn \in SUBSET DetourCells
    /\ startIn \in {DetourCellList[i] : i \in 1..Min(NumDetourStarts, Len(DetourCellList))}
    /\ goalIn \in DetourCells
    /\ ap = ApIdle /\ ha = HaIdle /\ bprRet = <<>>
    /\ ValidIdle
    /\ RoadIdle
    /\ VorIdle
    /\ LibIdle

\* a step is possible: the last call has not returned.  This is
\* ENABLED <<NextPath>>_vars written out (each step pops a node, pushes the
\* start node, returns or moves pc).
PathStepEnabled == pc # "done"

\* the guard of one of the actions of NextPath holds
PathCanStep ==
    \/ pc \in {"ap_call", "ap_loop", "ha_call", "ha_loop"}
    \/ pc = "bpr_call" /\ ha.status = "ret"

PathFairness == []<>(~PathStepEnabled) \/ []<><<NextPath>>_vars
SpecDetour == InitDetour /\ [][NextPath]_vars /\ PathFairness

\* the nodes of coordinate key in the heap
NodesOf(open, key) == {i \in 1..Len(open) : <<open[i].q, open[i].r>> = key}

\* one iteration of the loop from st to nxt, a node being popped: a node of
\* a closed coordinate is skipped and nothing but the heap changes; another
\* node's coordinate was not closed and is closed now; a coordinate that got
\* a node more in the heap is not closed and either had no g-score or has
\* a strictly smaller one now
AStarIteration(st, nxt) ==
    LET p == HeapPop(st.open)
        current_key == <<p.item.q, p.item.r>>
        more == {c \in DOMAIN nxt.g_scores :
                   Cardinality(NodesOf(nxt.open, c)) > Cardinality(NodesOf(p.data, c))}
    IN  /\ nxt.pops = st.pops + 1
        /\ current_key \in st.closed =>
              /\ nxt.closed = st.closed /\ nxt.g_scores = st.g_scores
              /\ nxt.open = p.data
        /\ current_key \notin st.closed => nxt.closed = st.closed \cup {current_key}
        /\ Len(nxt.open) > Len(p.data) => current_key \notin st.closed
        /\ Len(nxt.open) - Len(p.data) = Cardinality(more)
        /\ \A c \in more :
              /\ c \notin nxt.closed
              /\ Cardinality(NodesOf(nxt.open, c)) = Cardinality(NodesOf(p.data, c)) + 1
              /\ c \in DOMAIN st.g_scores => nxt.g_scores[c] < st.g_scores[c]

\* C27: the loops of hex_astar_path and hex_astar come to an end; a
\* coordinate is put in the closed set when its first node is popped and
\* only then are its neighbours looked at, a node popped later for it is
\* skipped; a coordinate gets another node in the heap only when its g-score
\* strictly decreases.
C27_LoopsEnd ==
    /\ <>(ap.status = "ret") /\ <>(ha.status = "ret") /\ <>(pc = "done")
    /\ [](PathStepEnabled => PathCanStep)
    /\ [][pc = "ap_loop" /\ ap.open # <<>> => AStarIteration(ap, ap')]_vars
    /\ [][pc = "ha_loop" /\ ha.open # <<>> => AStarIteration(ha, ha')]_vars

\* C27 witness: both searches have returned after popping a node of a
\* coordinate that was closed already.
C27_Witness ==
    /\ pc = "done"
    /\ ap.pops > Cardinality(ap.closed)
    /\ ha.pops > Cardinality(ha.closed)
(***************************************************************************)
(* generate_voronoi_regions: the number of seeds and their places.         *)
(***************************************************************************)
\* forest_seeds, water_seeds, grass_seeds of the call, in the order of the
\* seed loops
SeedsAsked == <<vorIn.forest_seeds, vorIn.water_seeds, vorIn.grass_seeds>>

\* the positions in vr.seeds of the seeds of the k-th loop
SeedsOfKind(k) == {j \in 1..Len(vr.seeds) : vr.seeds[j].tile_type = SeedKinds[k]}

NoSeedAsked == \A k \in 1..3 : SeedsAsked[k] <= 0

\* C28: a negative seed count is treated as zero: on a disk with cells each
\* loop makes max(0, count) seeds; when all three counts are zero or negative
\* there is exactly one seed, it is Grass and on the first cell of the disk
\* list, and every cell of the disk is classified Grass, one record each.
\* (Of an empty disk there is no cell: the default record, Grass, is returned.)
C28_NoSeedsGrass ==
    (VorReturned /\ Disk # {}) =>
        /\ ~NoSeedAsked =>
              \A k \in 1..3 :
                  Cardinality(SeedsOfKind(k)) = Max(0, SeedsAsked[k])
        /\ NoSeedAsked =>
              /\ Len(vr.seeds) = 1
              /\ vr.seeds[1].tile_type = Grass
              /\ 0 \in DOMAIN vr.shown
              /\ <<vr.seeds[1].q, vr.seeds[1].r>> = vr.shown[0]
              /\ vr.shown[0] \in Disk
              /\ \A rec \in BagToSet(vorRet) : rec.tileType = 0
              /\ {<<rec.q, rec.r>> : rec \in BagToSet(vorRet)} = Disk
              /\ \A rec \in BagToSet(vorRet) : CopiesIn(rec, vorRet) = 1

\* C28 witness: a call with a negative count and no positive one returned
\* the records of a disk of several cells.
C28_Witness ==
    /\ VorReturned /\ NoSeedAsked
    /\ \E k \in 1..3 : SeedsAsked[k] < 0
    /\ Cardinality(Disk) > 1
    /\ Len(vr.seeds) = 1
(***************************************************************************)
(* SpecSeedIndex: the index expression of the seed loops on one triple of  *)
(* seed_counter, i and hex_count.  The counter is the running number of    *)
(* the seed, i its position in its own loop (at most seed_counter - 1),    *)
(* hex_count the size of a disk: 1, 7, 19, 37 cells for max_layer 0..3.    *)
(***************************************************************************)
SeedCounterList ==
    << 1, 2, 3, 7, 19, 100, 481715, 481716, 542364, 542365, 1000000, 65536,
       2147483647 >>

NumSeedCounters == 10

SeedCounters == {SeedCounterList[k] : k \in 1..Min(NumSeedCounters, Len(SeedCounterList))}

DiskSizes == {1 + 3 * n * (n + 1) : n \in 0..3}

InitSeedIndex ==
    /\ pc = "idx_call"
    /\ \E seed_counter \in SeedCounters, hex_count \in DiskSizes :
          \E i \in {0, seed_counter \div 2, seed_counter - 1} :
              idxIn = [seed_counter |-> seed_counter, i |-> i, hex_count |-> hex_count]
    /\ idxRet = <<>>
    /\ DistIdle
    /\ HexIdle
    /\ WfcIdle
    /\ LockIdle
    /\ SearchIdle

SeedIndexCall ==
    /\ pc = "idx_call"
    /\ idxRet' = <<seed_index(idxIn.seed_counter, idxIn.i, idxIn.hex_count)>>
    /\ pc' = "idx_done"
    /\ UNCHANGED <<idxIn, distVars, hexVars, wfcVars, lockVars, searchVars>>

SpecSeedIndex == InitSeedIndex /\ [][SeedIndexCall]_vars

\* (c * 7919 + i * 997) mod n over the integers, by the remainders of its
\* parts
IndexFormula(c, i, n) == (((c % n) * (7919 % n)) + ((i % n) * (997 % n))) % n

\* C29: the seed with running counter c (from 1, over the forest, water and
\* grass loops in this order) and position i in its own loop (from 0) is
\* placed on the cell of the disk list at index (c * 7919 + i * 997) mod
\* |disk|, and the index is within the bounds of the list.
C29_SeedIndex ==
    pc = "idx_done" =>
        /\ idxRet[1] = IndexFormula(idxIn.seed_counter, idxIn.i, idxIn.hex_count)
        /\ idxRet[1] \in 0..(idxIn.hex_count - 1)
(***************************************************************************)
(* hex_astar: the parents recorded when the goal is popped.                *)
(***************************************************************************)
RECURSIVE ParentChain(_, _, _, _)
\* the cells met from node by the recorded parents, up to the start, to a
\* cell with no parent, or to `fuel` steps
ParentChain(parents, node, start, fuel) ==
    IF node = start \/ node \notin DOMAIN parents \/ fuel = 0 THEN <<node>>
    ELSE <<node>> \o ParentChain(parents, parents[node], start, fuel - 1)

\* hex_astar popped the goal, which is not the start
GoalPopped ==
    /\ pc \in {"bpr_call", "done"}
    /\ startIn # goalIn
    /\ goalIn \in ha.closed

\* C30: when hex_astar pops the goal and the goal is not the start, the
\* recorded parents lead from the goal to the start in finitely many steps
\* through distinct cells: every cell of the chain but the start has a
\* recorded parent, the start has none, and the branch that puts the start in
\* place of a missing parent is not taken.  (The path returned is this chain
\* reversed.)
C30_ParentChain ==
    /\ startIn \notin DOMAIN ha.parents
    /\ ha.status # "hang"
    /\ GoalPopped =>
          LET chain == ParentChain(ha.parents, goalIn, startIn,
                                   Cardinality(DOMAIN ha.parents))
          IN  /\ ha.status = "ret"
              /\ chain[Len(chain)] = startIn
              /\ Cardinality(SeqToSet(chain)) = Len(chain)
              /\ \A k \in 1..(Len(chain) - 1) : chain[k] \in DOMAIN ha.parents
              /\ ~ha.defended
              /\ PathOf(ha.ret) = Reverse(chain)

\* C30 witness: the goal was popped at the end of a chain of three cells or
\* more after a cell was pushed twice, its parent recorded anew (two nodes of
\* it in the heap, or one and the cell closed).
C30_Witness ==
    /\ GoalPopped
    /\ Len(PathOf(ha.ret)) >= 3
    /\ \E c \in DOMAIN ha.parents :
           Cardinality(NodesOf(ha.open, c)) + (IF c \in ha.closed THEN 1 ELSE 0) >= 2
=============================================================================
